---- MODULE Spec2Model ----
(***************************************************************************)
(* Model of the Replicate frontend proxy: the configuration resolver, the  *)
(* validators, the response builders, and one invocation of either         *)
(* universalHandler (universal-handler.ts) or the exported Lambda handler. *)
(*                                                                         *)
(* Representation of JavaScript data                                       *)
(*   - a string whose characters matter (model name, API key, environment  *)
(*     number) is a sequence of one-character strings;                     *)
(*   - a JSON/JS value is a record [t |-> type tag, v |-> payload];        *)
(*   - a number that may be NaN is a record [nan |-> BOOLEAN, n |-> Int];  *)
(*   - a request body text is [chars |-> the UTF-8 width of each of its    *)
(*     code points, doc |-> what JSON.parse makes of it].                  *)
(***************************************************************************)
EXTENDS Integers, Sequences, FiniteSets, TLC

\* ------------------------------------------------------------------------
\* Bounds of the model
\* ------------------------------------------------------------------------

\* Longest request body text, in code points.
MaxBodyChars == 2

\* ------------------------------------------------------------------------
\* JavaScript values
\* ------------------------------------------------------------------------

Undefined == [t |-> "undefined", v |-> <<>>]

Null == [t |-> "null", v |-> <<>>]

Str(s) == [t |-> "string", v |-> s]

Num(digits) == [t |-> "number", v |-> digits]

Arr(items) == [t |-> "array", v |-> items]

Obj(keys) == [t |-> "object", v |-> keys]

\* JavaScript truthiness of a value.
Truthy(x) ==
  CASE x.t = "undefined" -> FALSE
    [] x.t = "null"      -> FALSE
    [] x.t = "string"    -> x.v # <<>>
    [] x.t = "number"    -> x.v # <<"0">>
    [] x.t = "boolean"   -> x.v = <<"true">>
    [] OTHER             -> TRUE

\* The typeof operator: null and arrays are "object".
TypeOf(x) ==
  CASE x.t = "null"  -> "object"
    [] x.t = "array" -> "object"
    [] OTHER         -> x.t

\* An optional string that is not there (undefined).
Missing == "<undefined>"

\* Truthiness of an optional string: undefined and '' are falsy.
TruthyStr(s) == s # Missing /\ s # ""

\* a || b on optional strings.
OrElse(a, b) == IF TruthyStr(a) THEN a ELSE b

\* ------------------------------------------------------------------------
\* config.ts
\* ------------------------------------------------------------------------

\* An environment variable that is not set.
Unset == <<"<unset>">>

Digits == <<"0", "1", "2", "3", "4", "5", "6", "7", "8", "9">>

IsDigit(c) == \E d \in 1..10 : Digits[d] = c

DigitValue(c) == (CHOOSE d \in 1..10 : Digits[d] = c) - 1

Whitespace == {" ", "\t", "\n", "\r"}

NaN == [nan |-> TRUE, n |-> 0]

Number(n) == [nan |-> FALSE, n |-> n]

RECURSIVE SkipWhitespace(_)
SkipWhitespace(s) ==
  IF s # <<>> /\ Head(s) \in Whitespace THEN SkipWhitespace(Tail(s)) ELSE s

RECURSIVE ParseDigits(_, _)
\* The value of the longest prefix of digits of s, after acc.
ParseDigits(s, acc) ==
  IF s # <<>> /\ IsDigit(Head(s))
  THEN ParseDigits(Tail(s), 10 * acc + DigitValue(Head(s)))
  ELSE acc

\* parseInt(s): leading whitespace, an optional sign, then the longest run
\* of decimal digits; NaN when there is no digit.
ParseInt(s) ==
  LET body == SkipWhitespace(s)
      negative == body # <<>> /\ Head(body) = "-"
      signed == body # <<>> /\ Head(body) \in {"-", "+"}
      rest == IF signed THEN Tail(body) ELSE body
  IN IF rest = <<>> \/ ~IsDigit(Head(rest))
     THEN NaN
     ELSE Number(IF negative THEN 0 - ParseDigits(rest, 0) ELSE ParseDigits(rest, 0))

\* process.env.X || fallback : unset and '' are falsy.
EnvOr(value, fallback) == IF value = Unset \/ value = <<>> THEN fallback ELSE value

RECURSIVE Split(_)
\* String.split(','): the environment string is a sequence of tokens, a
\* token being either "," or a maximal comma-free piece.
Split(tokens) ==
  IF tokens = <<>> THEN <<"">>
  ELSE IF Head(tokens) = "," THEN <<"">> \o Split(Tail(tokens))
  ELSE LET rest == Split(Tail(tokens))
       IN <<Head(tokens) \o Head(rest)>> \o Tail(rest)

DefaultMaxRequestSize == <<"1", "0", "4", "8", "5", "7", "6">>

DefaultReplicateTimeout == <<"3", "0", "0", "0", "0", "0">>

\* getConfig(): the settings resolved from the process environment.
getConfig(env) ==
  LET isProduction == env.NODE_ENV = "production"
  IN [ maxRequestSize     |-> ParseInt(EnvOr(env.MAX_REQUEST_SIZE, DefaultMaxRequestSize)),
       replicateTimeout   |-> ParseInt(EnvOr(env.REPLICATE_TIMEOUT, DefaultReplicateTimeout)),
       corsAllowedOrigins |-> IF env.CORS_ALLOWED_ORIGINS = Unset
                              THEN <<"*">>
                              ELSE Split(env.CORS_ALLOWED_ORIGINS),
       logLevel           |-> IF env.LOG_LEVEL # "" THEN env.LOG_LEVEL
                              ELSE IF isProduction THEN "warn" ELSE "debug",
       enableStackTraces  |-> \/ env.ENABLE_STACK_TRACES = "true"
                              \/ (env.ENABLE_STACK_TRACES # "false" /\ ~isProduction) ]

\* ------------------------------------------------------------------------
\* utils.ts
\* ------------------------------------------------------------------------

RECURSIVE Sum(_)
Sum(s) == IF s = <<>> THEN 0 ELSE Head(s) + Sum(Tail(s))

\* Mutant: the characters are counted, not the bytes.
ByteLength_Chars(text) == Len(text.chars)

\* Buffer.byteLength(text, 'utf8'): the sum of the UTF-8 widths.
ByteLength(text) == Sum(text.chars)

\* String.length: UTF-16 code units; a 4-byte code point takes two.
StringLength(text) ==
  Sum([i \in 1..Len(text.chars) |-> IF text.chars[i] = 4 THEN 2 ELSE 1])

\* Mutant: a limit that is NaN is no limit.
LessOrEqual_NaNPasses(a, b) == b.nan \/ a <= b.n

\* a <= b in JavaScript, where b may be NaN (every comparison with NaN is
\* false).
LessOrEqual(a, b) == ~b.nan /\ a <= b.n

\* Mutant: the size check never fails.
isValidJsonSize_NoLimit(jsonString, maxSizeBytes) == TRUE

isValidJsonSize(jsonString, maxSizeBytes) ==
  LessOrEqual(ByteLength(jsonString), maxSizeBytes)

\* ------------------------------------------------------------------------
\* types.ts (the validators)
\* ------------------------------------------------------------------------

MAX_MODEL_NAME_LENGTH == 100

MIN_API_KEY_LENGTH == 8

MAX_API_KEY_LENGTH == 200

Letters ==
  { "a", "b", "c", "d", "e", "f", "g", "h", "i", "j", "k", "l", "m",
    "n", "o", "p", "q", "r", "s", "t", "u", "v", "w", "x", "y", "z",
    "A", "B", "C", "D", "E", "F", "G", "H", "I", "J", "K", "L", "M",
    "N", "O", "P", "Q", "R", "S", "T", "U", "V", "W", "X", "Y", "Z" }

\* [a-zA-Z0-9]
IsAlnum(c) == c \in Letters \/ IsDigit(c)

\* [a-zA-Z0-9-_]
IsNameChar(c) == IsAlnum(c) \/ c \in {"-", "_"}

\* Mutant: a part may start with a dash or an underscore.
IsNamePart_AnyStart(s) ==
  /\ s # <<>>
  /\ \A i \in 1..Len(s) : IsNameChar(s[i])

\* [a-zA-Z0-9][a-zA-Z0-9-_]* over the whole of s.
IsNamePart(s) ==
  /\ s # <<>>
  /\ IsAlnum(s[1])
  /\ \A i \in 2..Len(s) : IsNameChar(s[i])

\* /^[a-zA-Z0-9][a-zA-Z0-9-_]*\/[a-zA-Z0-9][a-zA-Z0-9-_]*$/.test(s)
ModelPattern(s) ==
  \E k \in 1..Len(s) :
    /\ s[k] = "/"
    /\ IsNamePart(SubSeq(s, 1, k - 1))
    /\ IsNamePart(SubSeq(s, k + 1, Len(s)))

RECURSIVE TrimStart(_)
TrimStart(s) ==
  IF s # <<>> /\ Head(s) \in Whitespace THEN TrimStart(Tail(s)) ELSE s

RECURSIVE TrimEnd(_)
TrimEnd(s) ==
  IF s # <<>> /\ s[Len(s)] \in Whitespace
  THEN TrimEnd(SubSeq(s, 1, Len(s) - 1))
  ELSE s

\* String.trim()
Trim(s) == TrimEnd(TrimStart(s))

\* Mutant: the key is not compared with its trimmed self.
isValidApiKey_NoTrim(apiKey) ==
  /\ TypeOf(apiKey) = "string"
  /\ Len(apiKey.v) >= MIN_API_KEY_LENGTH
  /\ Len(apiKey.v) <= MAX_API_KEY_LENGTH

isValidApiKey(apiKey) ==
  /\ TypeOf(apiKey) = "string"
  /\ Len(apiKey.v) >= MIN_API_KEY_LENGTH
  /\ Len(apiKey.v) <= MAX_API_KEY_LENGTH
  /\ Trim(apiKey.v) = apiKey.v

isValidModelName(model) ==
  /\ TypeOf(model) = "string"
  /\ Len(model.v) > 0
  /\ ModelPattern(model.v)
  /\ Len(model.v) <= MAX_MODEL_NAME_LENGTH

\* body.name : only an object of the request grammar has own properties
\* model, apiKey and input; on an array or a primitive they are undefined.
Prop(body, name) == IF body.t = "object" THEN body[name] ELSE Undefined

BodyObjectError == "Request body must be a valid JSON object"

ModelError == "Model name is required and must be in format \"owner/model\""

ApiKeyError == "Valid API key is required (8-200 characters)"

InputError == "Input must be an object if provided"

NoError == Missing

validateReplicateRequest(body) ==
  IF ~Truthy(body) \/ TypeOf(body) # "object"
  THEN [isValid |-> FALSE, error |-> BodyObjectError]
  ELSE IF ~Truthy(Prop(body, "model")) \/ ~isValidModelName(Prop(body, "model"))
  THEN [isValid |-> FALSE, error |-> ModelError]
  ELSE IF ~Truthy(Prop(body, "apiKey")) \/ ~isValidApiKey(Prop(body, "apiKey"))
  THEN [isValid |-> FALSE, error |-> ApiKeyError]
  ELSE IF /\ Prop(body, "input") # Undefined
          /\ (TypeOf(Prop(body, "input")) # "object" \/ Prop(body, "input") = Null)
  THEN [isValid |-> FALSE, error |-> InputError]
  ELSE [isValid |-> TRUE, error |-> NoError]

\* ------------------------------------------------------------------------
\* responses.ts and the response helpers of universal-handler.ts
\* ------------------------------------------------------------------------

AllowOrigin == "Access-Control-Allow-Origin"

AllowMethods == "Access-Control-Allow-Methods"

AllowHeaders == "Access-Control-Allow-Headers"

ContentType == "Content-Type"

\* Array.prototype.includes
Includes(list, x) == \E i \in 1..Len(list) : list[i] = x

\* Mutant: any origin the request names is echoed.
getCorsHeaders_Echo(origin, env) ==
  (AllowOrigin :> IF TruthyStr(origin) THEN origin ELSE "*")
    @@ (AllowMethods :> "GET, POST, OPTIONS")
    @@ (AllowHeaders :> "Content-Type, Authorization")
    @@ (ContentType :> "application/json")

\* getCorsHeaders(origin): reads the configuration afresh.
getCorsHeaders(origin, env) ==
  LET config == getConfig(env)
      allowedOrigins == config.corsAllowedOrigins
      corsOrigin ==
        IF TruthyStr(origin) /\ Len(allowedOrigins) > 0 /\ ~Includes(allowedOrigins, "*")
        THEN IF Includes(allowedOrigins, origin) THEN origin ELSE allowedOrigins[1]
        ELSE "*"
  IN (AllowOrigin :> corsOrigin)
       @@ (AllowMethods :> "GET, POST, OPTIONS")
       @@ (AllowHeaders :> "Content-Type, Authorization")
       @@ (ContentType :> "application/json")

\* { ...a, ...b }
Spread(a, b) == b @@ a

NoHeaders == [k \in {} |-> ""]

\* An object literal as a set of <<key, value>> pairs; a pair whose value is
\* undefined is dropped by JSON.stringify.
ObjectBody(pairs) ==
  [kind |-> "object", fields |-> {p \in pairs : p[2] # Missing}, value |-> Undefined]

\* A string body, passed through verbatim.
TextBody(str) == [kind |-> "text", fields |-> {}, value |-> str]

\* JSON.stringify of a value that is not an object literal of this module;
\* JSON.stringify(undefined) is undefined, not a string.
ValueBody(value) ==
  IF value = Undefined
  THEN [kind |-> "undefined", fields |-> {}, value |-> Undefined]
  ELSE [kind |-> "value", fields |-> {}, value |-> value]

\* Mutant: only the headers of the caller are set.
createResponse_NoCors(statusCode, body, headers, origin, env) ==
  [ statusCode |-> statusCode,
    headers    |-> headers,
    body       |-> IF "kind" \in DOMAIN body THEN body ELSE ValueBody(body) ]

\* createResponse: body is either a body object built by ObjectBody or a
\* JavaScript value.
createResponse(statusCode, body, headers, origin, env) ==
  [ statusCode |-> statusCode,
    headers    |-> Spread(getCorsHeaders(origin, env), headers),
    body       |-> IF "kind" \in DOMAIN body THEN body
                   ELSE IF TypeOf(body) = "string" THEN TextBody(body)
                   ELSE ValueBody(body) ]

\* ...(x && { key: x })
Optional(key, x) == IF TruthyStr(x) THEN {<<key, x>>} ELSE {}

ok(body, origin, env) == createResponse(200, body, NoHeaders, origin, env)

\* Mutant: the error is answered as unauthorized.
badRequest_Unauthorized(error, details, origin, env) ==
  createResponse(401, ObjectBody({<<"error", error>>} \cup Optional("details", details)),
                 NoHeaders, origin, env)

badRequest(error, details, origin, env) ==
  createResponse(400, ObjectBody({<<"error", error>>} \cup Optional("details", details)),
                 NoHeaders, origin, env)

unauthorized(error, origin, env) ==
  createResponse(401, ObjectBody({<<"error", error>>}), NoHeaders, origin, env)

notFound(message, origin, env) ==
  createResponse(404,
                 ObjectBody({<<"message", message>>, <<"error", "Not Found">>,
                             <<"statusCode", ToString(404)>>}),
                 NoHeaders, origin, env)

\* Mutant: the stack is disclosed whatever the caller passes.
internalServerError_Stack(error, details, stack, origin, env) ==
  createResponse(500,
                 ObjectBody({<<"error", error>>, <<"stack", "<stack>">>}
                              \cup Optional("details", details)),
                 NoHeaders, origin, env)

internalServerError(error, details, stack, origin, env) ==
  createResponse(500,
                 ObjectBody({<<"error", error>>} \cup Optional("details", details)
                              \cup Optional("stack", stack)),
                 NoHeaders, origin, env)

corsPreflightResponse(origin, env) ==
  createResponse(200, Str(<<>>), NoHeaders, origin, env)

customError(statusCode, error, details, origin, env) ==
  createResponse(statusCode,
                 ObjectBody({<<"error", error>>} \cup Optional("details", details)),
                 NoHeaders, origin, env)

\* The value of a field of a JSON object body, Missing when it has none.
Field(body, key) ==
  IF \E p \in body.fields : p[1] = key
  THEN (CHOOSE p \in body.fields : p[1] = key)[2]
  ELSE Missing

\* ------------------------------------------------------------------------
\* Inputs: the environment, the requests and the backend's answers
\* ------------------------------------------------------------------------

EnvMaxRequestSizes == {Unset, <<"3">>, <<"i", "n", "v", "a", "l", "i", "d">>}

EnvReplicateTimeouts == {Unset, <<"5", "0">>}

EnvCorsAllowedOrigins ==
  { Unset,
    <<>>,
    <<"https://app1.com", ",", "https://app2.com">>,
    <<"https://app1.com", ",", "*">> }

Envs ==
  [ MAX_REQUEST_SIZE     : EnvMaxRequestSizes,
    REPLICATE_TIMEOUT    : EnvReplicateTimeouts,
    CORS_ALLOWED_ORIGINS : EnvCorsAllowedOrigins,
    LOG_LEVEL            : {""},
    ENABLE_STACK_TRACES  : {""},
    NODE_ENV             : {""} ]

Methods == {"GET", "POST", "PUT", "DELETE", "OPTIONS"}

Paths == {"/health", "/api/replicate", "/unknown"}

\* headers[name], undefined when the mapping has no such key.
Header(headers, name) == IF name \in DOMAIN headers THEN headers[name] ELSE Missing

HeaderMaps ==
  { NoHeaders,
    ("Origin" :> "https://evil.com"),
    ("origin" :> "https://app2.com"),
    ("Origin" :> ""),
    ("origin" :> "https://app1.com") @@ ("Origin" :> "https://evil.com") }

\* The parsed forms of the request bodies.  A document is a value with the
\* three properties the request grammar reads.
Doc(value, model, apiKey, input) ==
  [t |-> value.t, v |-> value.v, model |-> model, apiKey |-> apiKey, input |-> input]

\* The object { model, apiKey, input }, an undefined property being absent.
Object(model, apiKey, input) ==
  Doc(Obj((IF model = Undefined THEN <<>> ELSE <<"model">>)
            \o (IF apiKey = Undefined THEN <<>> ELSE <<"apiKey">>)
            \o (IF input = Undefined THEN <<>> ELSE <<"input">>)),
      model, apiKey, input)

Primitive(value) == Doc(value, Undefined, Undefined, Undefined)

\* A text that JSON.parse rejects.
InvalidJson == Primitive([t |-> "invalid", v |-> <<>>])

EmptyObject == Object(Undefined, Undefined, Undefined)

ValidModel == Str(<<"o", "/", "m">>)

InvalidModel == Str(<<"m">>)

ValidKey == Str(<<"t", "e", "s", "t", "1", "2", "3", "4">>)

ShortKey == Str(<<"s", "h", "o", "r", "t">>)

InputValues ==
  { Undefined, Null, Str(<<"x">>), Num(<<"1">>), Arr(<<"1">>), Obj(<<>>), Obj(<<"prompt">>) }

Docs ==
  { InvalidJson, Primitive(Null), Primitive(Num(<<"0">>)), Primitive(Str(<<"s">>)),
    Primitive(Arr(<<>>)) }
  \cup { Object(m, k, Undefined) :
           m \in {Undefined, InvalidModel, ValidModel}, k \in {Undefined, ShortKey, ValidKey} }
  \cup { Object(ValidModel, ValidKey, i) : i \in InputValues }

\* UTF-8 widths of the code points a body is made of.
CodePointWidths == {1, 3}

CharProfiles == UNION { [1..n -> CodePointWidths] : n \in 0..MaxBodyChars }

\* A request body: null (or undefined), or a text.  The size check reads
\* only the text's length profile (chars) and the parser only its content
\* (doc), so the two are independent inputs; the empty text is not JSON.
NullBody == [null |-> TRUE, chars |-> <<>>, doc |-> InvalidJson]

Text(chars, doc) == [null |-> FALSE, chars |-> chars, doc |-> doc]

Bodies ==
  {NullBody, Text(<<>>, InvalidJson)}
  \cup { Text(c, d) : c \in CharProfiles \ {<<>>}, d \in Docs }

\* The requests: those of the proxy route carry every body, the others none
\* or one.
Requests ==
  { [httpMethod |-> "POST", path |-> "/api/replicate", headers |-> h, body |-> b] :
      h \in HeaderMaps, b \in Bodies }
  \cup { [httpMethod |-> m, path |-> p, headers |-> h, body |-> b] :
           m \in Methods, p \in Paths \cup {Missing},
           h \in HeaderMaps, b \in {NullBody, Text(<<1>>, EmptyObject)} }

\* The Lambda context: an object with its awsRequestId, or no object at all.
Context(id) == [present |-> TRUE, awsRequestId |-> id]

NoContext == [present |-> FALSE, awsRequestId |-> Missing]

\* The context the Lambda runtime hands over.
Contexts == { Context("req-1") }

\* Contexts of a direct call: a null request id (it prints as 'null'), and
\* no context.
FaultContexts == Contexts \cup { Context("null"), NoContext }

\* The console, as the set of its methods that throw when called.
Consoles == { {} }

FaultConsoles == { {}, {"log"}, {"warn"}, {"error"}, {"log", "warn", "error"} }

\* new Date().toISOString()
Timestamps == {"2024-01-01T00:00:00.000Z"}

\* What the backend may resolve with: JSON values, or file outputs whose
\* url() method yields their address.
FileOutput(urls) == [t |-> "file", v |-> urls]

FileList(urls) == [t |-> "files", v |-> urls]

Bool(b) == [t |-> "boolean", v |-> <<b>>]

Results ==
  { Arr(<<"https://replicate.delivery/pbxt/test.png">>),
    Obj(<<"output">>),
    Str(<<"h", "i">>),
    Str(<<"7">>),
    Num(<<"7">>),
    Bool("true"),
    Null,
    FileOutput(<<"https://replicate.delivery/out-0">>),
    FileList(<<"https://replicate.delivery/out-0", "https://replicate.delivery/out-1">>) }

\* An error object; status 0 stands for no status.
Error(message, status, detail) ==
  [object |-> TRUE, message |-> message, status |-> status, detail |-> detail,
   stack |-> "<stack>"]

\* A rejection or a throw that carries no error object: reject(undefined).
NoErrorObject ==
  [object |-> FALSE, message |-> Missing, status |-> 0, detail |-> Missing, stack |-> Missing]

BackendErrors ==
  { Error("Model not found", 404, "The requested model does not exist"),
    Error("Unauthenticated", 401, "You did not pass a valid authentication token"),
    Error("Network error", 0, Missing),
    Error(Missing, 0, Missing),
    NoErrorObject }

\* What a throwing console method throws.
LoggerErrors == { Error("Console logging failed unexpectedly", 0, Missing), Error("", 0, Missing) }

\* The TypeError of reading a property of undefined or null.
TypeError(property) ==
  Error("Cannot read properties of undefined (reading '" \o property \o "')", 0, Missing)

\* The events of the exported handler, by the shape its branches tell apart.
\* Every shape carries the method, path, headers and body in its own
\* places; the API Gateway v1 shape carries every request, the others a few.
EventShapes == {"cloudfront", "apigw2", "apigw1", "functionUrl", "unknown"}

FewRequests ==
  { r \in Requests :
      /\ r.headers \in {NoHeaders, ("Origin" :> "https://evil.com")}
      /\ r.body \in {NullBody, Text(<<1>>, EmptyObject),
                      Text(<<1>>, Object(ValidModel, ValidKey, Undefined))} }

Event(shape, r) ==
  [shape |-> shape, httpMethod |-> r.httpMethod, path |-> r.path,
   headers |-> r.headers, body |-> r.body]

ProxyEvents ==
  { Event("apigw1", r) : r \in Requests }
  \cup { Event(shape, r) : shape \in EventShapes \ {"apigw1"}, r \in FewRequests }

UniversalEvents == { Event("universal", r) : r \in Requests }

\* The handler is called without an event (undefined).
NoEvent == [shape |-> "absent", httpMethod |-> Missing, path |-> Missing,
            headers |-> NoHeaders, body |-> NullBody]

NoBackendError == Error(Missing, 0, Missing)

\* ------------------------------------------------------------------------
\* Request normalizers
\* ------------------------------------------------------------------------

\* A text is a sequence of code points; a byte sequence holds 0..255; a
\* base64 string is a sequence of digits 0..63 and of the padding sign.
Base64Pad == 64

\* A JavaScript object given by its members.
Map(members) == [t |-> "object", v |-> members]

\* a || b on values.
Either(a, b) == IF Truthy(a) THEN a ELSE b

\* Buffer.from(text): the UTF-8 bytes of a text (code points below 2048).
RECURSIVE Utf8Encode(_)
Utf8Encode(text) ==
  IF text = <<>> THEN <<>>
  ELSE (IF Head(text) < 128
          THEN << Head(text) >>
          ELSE << 192 + (Head(text) \div 64), 128 + (Head(text) % 64) >>)
       \o Utf8Encode(Tail(text))

\* buffer.toString(): the text of UTF-8 bytes; a byte that starts no valid
\* sequence becomes U+FFFD.
RECURSIVE Utf8Decode(_)
Utf8Decode(bytes) ==
  IF bytes = <<>> THEN <<>>
  ELSE IF bytes[1] < 128
    THEN << bytes[1] >> \o Utf8Decode(Tail(bytes))
  ELSE IF bytes[1] \in 194..223 /\ Len(bytes) >= 2 /\ bytes[2] \in 128..191
    THEN << (bytes[1] - 192) * 64 + (bytes[2] - 128) >> \o Utf8Decode(Tail(Tail(bytes)))
  ELSE << 65533 >> \o Utf8Decode(Tail(bytes))

\* buffer.toString('base64').
RECURSIVE Base64Encode(_)
Base64Encode(bytes) ==
  CASE Len(bytes) = 0 -> <<>>
    [] Len(bytes) = 1 ->
         << bytes[1] \div 4, (bytes[1] % 4) * 16, Base64Pad, Base64Pad >>
    [] Len(bytes) = 2 ->
         << bytes[1] \div 4, (bytes[1] % 4) * 16 + (bytes[2] \div 16),
            (bytes[2] % 16) * 4, Base64Pad >>
    [] OTHER ->
         << bytes[1] \div 4, (bytes[1] % 4) * 16 + (bytes[2] \div 16),
            (bytes[2] % 16) * 4 + (bytes[3] \div 64), bytes[3] % 64 >>
         \o Base64Encode(SubSeq(bytes, 4, Len(bytes)))

\* The digits of a base64 string before its padding.
RECURSIVE Base64Digits(_)
Base64Digits(data) ==
  IF data = <<>> \/ Head(data) = Base64Pad THEN <<>>
  ELSE << Head(data) >> \o Base64Digits(Tail(data))

RECURSIVE Base64Bytes(_)
Base64Bytes(d) ==
  CASE Len(d) < 2 -> <<>>
    [] Len(d) = 2 -> << d[1] * 4 + (d[2] \div 16) >>
    [] Len(d) = 3 -> << d[1] * 4 + (d[2] \div 16), (d[2] % 16) * 16 + (d[3] \div 4) >>
    [] OTHER ->
         << d[1] * 4 + (d[2] \div 16), (d[2] % 16) * 16 + (d[3] \div 4),
            (d[3] % 4) * 64 + d[4] >>
         \o Base64Bytes(SubSeq(d, 5, Len(d)))

\* Mutant: the padding is decoded as a digit.
Base64Decode_NoPadding(data) == Base64Bytes(data)

\* Buffer.from(data, 'base64').
Base64Decode(data) == Base64Bytes(Base64Digits(data))

\* A query string is a sequence of tokens: "&", "=", and runs of other
\* characters.  The form decoding of a run: '+' is a space, %2B is '+'.
FormDecode(run) ==
  CASE run = "a+b"   -> "a b"
    [] run = "a%2Bb" -> "a+b"
    [] OTHER         -> run

\* The form encoding of a name or value.
FormEncode(text) ==
  CASE text = "a b" -> "a+b"
    [] text = "a+b" -> "a%2Bb"
    [] OTHER        -> text

\* The index of the first token equal to sep, 0 if there is none.
IndexOf(tokens, sep) ==
  IF \E i \in 1..Len(tokens) : tokens[i] = sep
    THEN CHOOSE i \in 1..Len(tokens) :
           tokens[i] = sep /\ \A j \in 1..(i - 1) : tokens[j] # sep
    ELSE 0

\* new URLSearchParams(querystring): the name/value pairs, in order; an
\* empty segment gives no pair, a segment without '=' an empty value.
RECURSIVE URLSearchParams(_)
URLSearchParams(tokens) ==
  LET amp     == IndexOf(tokens, "&")
      segment == IF amp = 0 THEN tokens ELSE SubSeq(tokens, 1, amp - 1)
      rest    == IF amp = 0 THEN <<>> ELSE SubSeq(tokens, amp + 1, Len(tokens))
      eq      == IndexOf(segment, "=")
      name    == IF eq = 1 THEN ""
                 ELSE FormDecode(segment[1])
      value   == IF eq = 0 \/ eq = Len(segment) THEN ""
                 ELSE FormDecode(segment[eq + 1])
  IN  (IF segment = <<>> THEN <<>> ELSE << << name, value >> >>)
      \o (IF amp = 0 THEN <<>> ELSE URLSearchParams(rest))

\* Object.fromEntries(pairs): a later pair replaces an earlier one of the
\* same name.
RECURSIVE fromEntries(_)
fromEntries(pairs) ==
  IF pairs = <<>> THEN NoHeaders
  ELSE LET last == pairs[Len(pairs)]
       IN  (last[1] :> last[2]) @@ fromEntries(SubSeq(pairs, 1, Len(pairs) - 1))

\* JSON.stringify of an event body that is not a string.
StringifyBody(body) ==
  CASE body.t = "object" -> << 123, 125 >>
    [] body.t = "array"  -> << 91, 93 >>
    [] OTHER             -> << 55 >>

\* The outcome of a normalizer: the request it returned, or the exception.
UniversalRequest(httpMethod, path, headers, body, queryStringParameters) ==
  [ threw |-> FALSE, error |-> NoBackendError,
    httpMethod |-> httpMethod, path |-> path, headers |-> headers, body |-> body,
    queryStringParameters |-> queryStringParameters ]

Raises(error) ==
  [ threw |-> TRUE, error |-> error,
    httpMethod |-> Missing, path |-> Missing, headers |-> Undefined, body |-> Undefined,
    queryStringParameters |-> Undefined ]

\* export const fromApiGateway = (event) => ({ ... })
fromApiGateway(event) ==
  UniversalRequest(event.httpMethod,
                   event.path,
                   Either(event.headers, Map(NoHeaders)),
                   event.body,
                   event.queryStringParameters)

\* Array.isArray(values) ? values[0].value : values, over the entries of
\* request.headers.
CollapseHeaders(headers) ==
  [ key \in DOMAIN headers |->
      IF headers[key].t = "array" THEN headers[key].v[1] ELSE headers[key].v ]

\* The Lambda@Edge branch of fromDirectLambda.
fromLambdaEdge(request) ==
  IF request.headers.t \in {"undefined", "null"}
    THEN Raises(Error("Cannot convert undefined or null to object", 0, Missing))
  ELSE IF \E key \in DOMAIN request.headers.v :
            request.headers.v[key].t = "array" /\ request.headers.v[key].v = <<>>
    THEN Raises(TypeError("value"))
  ELSE
    UniversalRequest(
      request.method,
      request.uri,
      Map(CollapseHeaders(request.headers.v)),
      IF request.body.t = "object" /\ request.body.v # <<>>
        THEN Str(Utf8Decode(Base64Decode(request.body.v)))
        ELSE Null,
      IF Truthy(request.querystring)
        THEN Map(fromEntries(URLSearchParams(request.querystring.v)))
        ELSE Null)

\* export const fromDirectLambda = (event) => { ... }
fromDirectLambda(event) ==
  IF event.Records # <<>>
    THEN fromLambdaEdge(event.Records[1])
    ELSE UniversalRequest(
           OrElse(OrElse(event.httpMethod, event.method), "GET"),
           OrElse(OrElse(event.path, event.uri), "/"),
           Either(event.headers, Map(NoHeaders)),
           IF TypeOf(event.body) = "string" THEN event.body
           ELSE IF Truthy(event.body) THEN Str(StringifyBody(event.body))
           ELSE Null,
           Either(Either(event.queryStringParameters, event.query), Null))

\* What an invocation carries, whatever the shape of its event: the method,
\* the path, the headers, and the body and the query, each null when the
\* invocation has none.
Contents ==
  [ method  : {"GET", "POST"},
    path    : {"/api/replicate"},
    headers : {NoHeaders, ("origin" :> "https://example.com")},
    body    : {Null, Str(<<>>), Str(<< 123, 125 >>), Str(<< 233 >>)},
    query   : {Null, Map(NoHeaders), Map(("test" :> "value")),
               Map(("q" :> "a+b") @@ ("test" :> "value"))} ]

NoContent ==
  [method |-> Missing, path |-> Missing, headers |-> NoHeaders, body |-> Null, query |-> Null]

\* The ways an event leaves out a value: null, or no field at all.
Absent == {Null, Undefined}

\* The API Gateway events that carry a content.
GatewayEvents(c) ==
  { [httpMethod |-> c.method, path |-> c.path, headers |-> h, body |-> b,
     queryStringParameters |-> q] :
      h \in {Map(c.headers)} \cup (IF c.headers = NoHeaders THEN {Undefined} ELSE {}),
      b \in (IF c.body = Null THEN Absent ELSE {c.body}),
      q \in (IF c.query = Null THEN Absent ELSE {c.query}) }

\* The orders in which the names of a mapping can be written.
Orders(names) ==
  { o \in [1..Cardinality(names) -> names] :
      \A i, j \in 1..Cardinality(names) : i # j => o[i] # o[j] }

\* The query string of a mapping, its names in the given order.
RECURSIVE QueryString(_, _, _)
QueryString(m, order, i) ==
  IF i > Len(order) THEN <<>>
  ELSE << FormEncode(order[i]), "=", FormEncode(m[order[i]]) >>
       \o (IF i < Len(order) THEN << "&" >> ELSE <<>>)
       \o QueryString(m, order, i + 1)

\* A direct invocation event: the Lambda@Edge records, or the fields of the
\* custom format.
DirectEvent(records, httpMethod, method, path, uri, headers, body, queryStringParameters, query) ==
  [ Records |-> records, httpMethod |-> httpMethod, method |-> method, path |-> path,
    uri |-> uri, headers |-> headers, body |-> body,
    queryStringParameters |-> queryStringParameters, query |-> query ]

\* createLambdaEdgeEvent: event.Records[0].cf.request.
EdgeRequest(method, uri, headers, body, querystring) ==
  [method |-> method, uri |-> uri, headers |-> headers, body |-> body,
   querystring |-> querystring]

\* The Lambda@Edge events that carry a content: every header is a list of
\* values or a plain value, the body is base64 under body.data, the query
\* is a string.  A request without headers may have no headers field, or a
\* header with an empty list of values.
EdgeEvents(c) ==
  { DirectEvent(<< EdgeRequest(c.method, c.path, h, b, q) >>, Missing, Missing, Missing,
                Missing, Undefined, Undefined, Undefined, Undefined) :
      h \in { Map([k \in DOMAIN c.headers |-> Arr(<< c.headers[k] >>)]),
              Map([k \in DOMAIN c.headers |-> [t |-> "string", v |-> c.headers[k]]]) }
            \cup (IF c.headers = NoHeaders
                    THEN {Undefined, Map(("accept" :> Arr(<<>>)))}
                    ELSE {}),
      b \in (IF c.body = Null
               THEN {Undefined, Map(<<>>)}
               ELSE {Map(Base64Encode(Utf8Encode(c.body.v)))}),
      q \in (IF c.query = Null
               THEN {Undefined, Str(<<>>)}
               ELSE { Str(QueryString(c.query.v, o, 1)) : o \in Orders(DOMAIN c.query.v) }) }

\* The body of a custom event may be the text, or the object the text is
\* the JSON of.
BodyObjects(body) == IF body = Str(<< 123, 125 >>) THEN {Obj(<<>>)} ELSE {}

\* The custom direct events that carry a content, each value under either
\* of its names.
GenericEvents(c) ==
  { DirectEvent(<<>>, m[1], m[2], p[1], p[2], h, b, q[1], q[2]) :
      m \in { << c.method, Missing >>, << Missing, c.method >> },
      p \in { << c.path, Missing >>, << Missing, c.path >> },
      h \in {Map(c.headers)} \cup (IF c.headers = NoHeaders THEN {Undefined} ELSE {}),
      b \in (IF c.body = Null THEN Absent ELSE {c.body} \cup BodyObjects(c.body)),
      q \in (IF c.query = Null
               THEN { << Undefined, Undefined >> }
               ELSE { << c.query, Undefined >>, << Undefined, c.query >> }) }

\* The event {}.
EmptyEvent ==
  DirectEvent(<<>>, Missing, Missing, Missing, Missing, Undefined, Undefined, Undefined,
              Undefined)

NoGatewayEvent ==
  [httpMethod |-> Missing, path |-> Missing, headers |-> Undefined, body |-> Undefined,
   queryStringParameters |-> Undefined]

\* No normalizer has been called on the content.
Unnormalized(c) ==
  [ content |-> c, done |-> {},
    gatewayEvent |-> NoGatewayEvent, gateway |-> fromApiGateway(NoGatewayEvent),
    edgeEvent |-> EmptyEvent, edge |-> fromDirectLambda(EmptyEvent),
    directEvent |-> EmptyEvent, direct |-> fromDirectLambda(EmptyEvent) ]

\* ------------------------------------------------------------------------
\* Values for the validation functions
\* ------------------------------------------------------------------------

\* Longest text of which every spelling is tried.
MaxNameChars == 3

\* A letter, a digit, the dash, the underscore, the slash, a letter that is
\* not ASCII, and a space.
NameChars == {"a", "7", "-", "_", "/", "é", " "}

ShortTexts == UNION { [1..n -> NameChars] : n \in 0..MaxNameChars }

\* 'c'.repeat(n)
Repeat(c, n) == [i \in 1..n |-> c]

\* The model names of the tests.
NamedModels ==
  { << "o", "w", "n", "e", "r", "/", "m", "o", "d", "e", "l" >>,
    << "o", "w", "n", "e", "r", "/", "m", "o", "d", "e", "l", "-" >>,
    << "u", "s", "e", "r", "1", "2", "3", "/", "m", "_", "n", "-", "v", "2" >>,
    << "m", "o", "d", "e", "l" >>,
    << "/", "m", "o", "d", "e", "l" >>,
    << "o", "w", "n", "e", "r", "/" >>,
    << "o", "w", "n", "e", "r", "/", "m", "o", "d", "e", "l", "/" >>,
    << "o", "w", "n", "e", "r", "/", "-", "m", "o", "d", "e", "l" >> }

\* Model names about as long as the limit allows.
LongModels ==
  { << "o", "/" >> \o Repeat("m", n) :
      n \in (MAX_MODEL_NAME_LENGTH - 3)..(MAX_MODEL_NAME_LENGTH - 1) }
  \cup { Repeat("a", MAX_MODEL_NAME_LENGTH + 1) }

\* Keys about as long as the limits allow, with and without whitespace
\* around them, and a key with whitespace inside.
KeyTexts ==
  { lead \o Repeat("k", n) \o trail :
      lead \in {<<>>, << " " >>, << "x" >>},
      trail \in {<<>>, << " " >>, << "\n" >>, << "x" >>},
      n \in (0..1) \cup ((MIN_API_KEY_LENGTH - 3)..MIN_API_KEY_LENGTH)
           \cup ((MAX_API_KEY_LENGTH - 2)..(MAX_API_KEY_LENGTH + 1)) }
  \cup { << "a", " ", "b", "c", "d", "e", "f", "g" >> }

\* Values that are not strings.
NonStrings ==
  { Undefined, Null, Num(<< "1", "2", "3", "4", "5", "6", "7", "8" >>), Bool("true"),
    Arr(<< "o/m" >>), Obj(<<>>) }

ValidatorInputs ==
  { Str(s) : s \in ShortTexts \cup NamedModels \cup LongModels \cup KeyTexts } \cup NonStrings

\* No validation function has been applied to the value.
Unchecked(value) == [value |-> value, by |-> "none", verdict |-> FALSE, error |-> Missing]

\* ------------------------------------------------------------------------
\* State
\* ------------------------------------------------------------------------

VARIABLES
  env,         \* process.env
  console,     \* the console methods that throw
  thrown,      \* the exceptions raised in the handler's own code, in order
  pc,          \* where the invocation stands
  entry,       \* "universal" (universalHandler) or "proxy" (exported handler)
  event,       \* the event the handler was invoked with
  request,     \* method, path, headers and body the handler works on
  requestId,   \* context.awsRequestId
  timestamp,   \* new Date().toISOString()
  config,      \* const config = getConfig()
  origin,      \* the origin read from the headers
  parsedBody,  \* let body = JSON.parse(...)
  callArgs,    \* the arguments of the last backend call
  backend,     \* replicate.run: "none", "pending", "settled", or "threw"
  timer,       \* the setTimeout of withTimeout: its state and its message
  race,        \* the promise of Promise.race
  urls,        \* the promise of the url() calls: "none", "pending", "settled"
  response,    \* the value the handler returned
  calls,       \* number of backend calls issued
  stages,      \* the stages of the proxy flow that ran, in order
  logs,        \* the console
  parked,      \* the local state of another invocation, suspended at an await
  normalized,  \* a content, and the requests the normalizers made of its events
  checked      \* a value, and what a validation function said of it

vars ==
  << env, console, thrown, pc, entry, event, request, requestId, timestamp, config, origin,
     parsedBody, callArgs, backend, timer, race, urls, response, calls, stages, logs,
     parked, normalized, checked >>

NoRequest == [httpMethod |-> Missing, path |-> Missing, headers |-> NoHeaders, body |-> NullBody]

NoResponse == [statusCode |-> 0, headers |-> NoHeaders, body |-> TextBody(Str(<<>>))]

NoCall == [model |-> Undefined, input |-> Undefined, auth |-> Undefined]

\* A promise: pending, fulfilled with a value or rejected with an error.
Pending == [state |-> "pending", value |-> Undefined, error |-> NoBackendError]

Fulfilled(value) == [state |-> "fulfilled", value |-> value, error |-> NoBackendError]

Rejected(error) == [state |-> "rejected", value |-> Undefined, error |-> error]

\* No timer has been set.
NoTimer == [state |-> "none", message |-> Missing]

\* The local state of the running invocation: the constants and variables
\* of the handler's call, and what is recorded of it.
Locals ==
  [ pc |-> pc, entry |-> entry, event |-> event, request |-> request,
    requestId |-> requestId, timestamp |-> timestamp, config |-> config,
    origin |-> origin, parsedBody |-> parsedBody, callArgs |-> callArgs,
    backend |-> backend, timer |-> timer, race |-> race, urls |-> urls,
    response |-> response, calls |-> calls, stages |-> stages, thrown |-> thrown ]

\* The local state of a handler that has not been called.
Fresh(e) ==
  [ pc |-> "idle", entry |-> "none", event |-> Event("none", NoRequest),
    request |-> NoRequest, requestId |-> Missing, timestamp |-> Missing,
    config |-> getConfig(e), origin |-> Missing, parsedBody |-> Primitive(Undefined),
    callArgs |-> NoCall, backend |-> "none", timer |-> NoTimer, race |-> Pending,
    urls |-> "none", response |-> NoResponse, calls |-> 0, stages |-> <<>>,
    thrown |-> <<>> ]

StartWith(envs, contents, values) ==
  /\ env \in envs
  /\ normalized \in { Unnormalized(c) : c \in contents }
  /\ checked \in { Unchecked(v) : v \in values }
  /\ parked = Fresh(env)
  /\ console = {}
  /\ thrown = <<>>
  /\ pc = "idle"
  /\ entry = "none"
  /\ event = Event("none", NoRequest)
  /\ request = NoRequest
  /\ requestId = Missing
  /\ timestamp = Missing
  /\ config = getConfig(env)
  /\ origin = Missing
  /\ parsedBody = Primitive(Undefined)
  /\ callArgs = NoCall
  /\ backend = "none"
  /\ timer = NoTimer
  /\ race = Pending
  /\ urls = "none"
  /\ response = NoResponse
  /\ calls = 0
  /\ stages = <<>>
  /\ logs = <<>>

Start(envs) == StartWith(envs, {NoContent}, {Undefined})

Init == Start(Envs)

\* ------------------------------------------------------------------------
\* Logging
\* ------------------------------------------------------------------------

\* One console call; the line is a sequence of pieces, a string whose
\* characters matter being spliced in character by character.
Line(level, pieces) == [level |-> level, pieces |-> pieces]

Tag == <<"[", requestId, "] ">>

\* `${n}` for a number that may be NaN.
NumStr(x) == IF x.nan THEN "NaN" ELSE ToString(x.n)

\* The characters of the body a JSON.stringify of the event shows.
BodyPieces(body) ==
  IF body.null THEN <<"null">>
  ELSE body.doc.model.v \o body.doc.apiKey.v

\* ------------------------------------------------------------------------
\* The handlers
\* ------------------------------------------------------------------------

\* The origin the handler hands to the response helpers: universalHandler
\* passes the one it read, the exported handler calls every helper without
\* an origin argument.
originArg == IF entry = "universal" THEN origin ELSE Missing

\* return r
Return(r) ==
  /\ response' = r
  /\ pc' = "done"

\* What the exported handler reads from an event, branch by branch.
ProxyExtract(e) ==
  CASE e.shape = "cloudfront" ->
         [ httpMethod |-> OrElse(e.httpMethod, "GET"),
           path       |-> OrElse(e.path, "/"),
           headers    |-> e.headers,
           body       |-> IF e.body.null \/ e.body.chars = <<>> THEN NullBody ELSE e.body ]
    [] e.shape = "apigw2" ->
         [ httpMethod |-> OrElse(e.httpMethod, "GET"),
           path       |-> OrElse(e.path, "/"),
           headers    |-> e.headers,
           body       |-> e.body ]
    [] e.shape = "apigw1" ->
         [ httpMethod |-> OrElse(e.httpMethod, "GET"),
           path       |-> OrElse(e.path, "/"),
           headers    |-> e.headers,
           body       |-> e.body ]
    [] e.shape = "functionUrl" ->
         [ httpMethod |-> "GET",
           path       |-> OrElse(e.path, "/"),
           headers    |-> e.headers,
           body       |-> e.body ]
    [] OTHER ->
         [ httpMethod |-> "GET",
           path       |-> "/",
           headers    |-> e.headers,
           body       |-> IF e.body.null \/ e.body.chars = <<>> THEN NullBody ELSE e.body ]

\* The catch-all of a handler, given the request id and the origin the
\* handler holds, the console methods that throw and the console output so
\* far: it logs the error and
\* returns the 500 response.  An exception of its own logging leaves the
\* catch block, and the promise of the handler is rejected.
CatchAll(error, id, org, failing, logged) ==
  IF "error" \in failing
  THEN /\ \E again \in LoggerErrors : thrown' = thrown \o <<error, again>>
       /\ pc' = "rejected"
       /\ UNCHANGED << response, logs >>
  ELSE /\ thrown' = Append(thrown, error)
       /\ logs' = logged \o
            << Line("error", <<"[", id, "] ", "Lambda handler error:", error.message>>) >>
            \o (IF config.enableStackTraces
                THEN << Line("error", <<"[", id, "] ", "Error stack:", error.stack>>),
                        Line("error", <<"[", id, "] ", "Full error object:", "{}">>) >>
                ELSE <<>>)
       /\ Return(internalServerError("Internal server error",
                                     OrElse(error.message, "Unknown error"),
                                     IF config.enableStackTraces THEN error.stack ELSE Missing,
                                     org, env))

\* An exception reaches the catch-all of the running invocation.
Throw(error) == CatchAll(error, requestId, originArg, console, logs)

\* A console method that throws when called.  The console is the same
\* throughout an invocation, and both handlers call console.log first, so
\* that only console.warn and console.error can fail after the first lines.
Fails(method) == method \in console

\* universalHandler is called: configuration, request id, timestamp and
\* origin are read before the try block, where a missing context or a
\* missing request throws; then the request is logged.
InvokeUniversalWith(events, contexts, consoles) ==
  /\ pc = "idle"
  /\ \E e \in events, context \in contexts, now \in Timestamps, failing \in consoles :
       LET org == OrElse(Header(e.headers, "origin"), Header(e.headers, "Origin")) IN
       /\ entry' = "universal"
       /\ event' = e
       /\ console' = failing
       /\ request' = [httpMethod |-> e.httpMethod, path |-> e.path,
                      headers |-> e.headers, body |-> e.body]
       /\ config' = getConfig(env)
       /\ requestId' = context.awsRequestId
       /\ timestamp' = now
       /\ origin' = org
       /\ IF ~context.present
          THEN /\ thrown' = Append(thrown, TypeError("awsRequestId"))
               /\ pc' = "rejected"
               /\ UNCHANGED << response, logs >>
          ELSE IF e.shape = "absent"
          THEN /\ thrown' = Append(thrown, TypeError("headers"))
               /\ pc' = "rejected"
               /\ UNCHANGED << response, logs >>
          ELSE IF "log" \in failing
          THEN \E error \in LoggerErrors : CatchAll(error, context.awsRequestId, org, failing, logs)
          ELSE /\ logs' = logs \o
                    << Line("log", <<"[", context.awsRequestId, "] ", "Received ",
                                     e.httpMethod, " request at ", now>>),
                       Line("log", <<"[", context.awsRequestId, "] ", "Path: ", e.path>>) >>
               /\ pc' = "route"
               /\ UNCHANGED << response, thrown >>
  /\ UNCHANGED << env, parked, normalized, checked, parsedBody, callArgs, backend, timer, race, urls, calls, stages >>

\* The exported handler is called: configuration, request id and timestamp
\* are read before the try block, where a missing context throws; inside it
\* the handler tells the event's shape, reads method, path, headers and
\* body from it, and logs them and the whole event.  The exported handler
\* hands no origin to the response helpers.
InvokeProxyWith(events, contexts, consoles) ==
  /\ pc = "idle"
  /\ \E e \in events, context \in contexts, now \in Timestamps, failing \in consoles :
       LET r == ProxyExtract(e) IN
       /\ entry' = "proxy"
       /\ event' = e
       /\ console' = failing
       /\ request' = r
       /\ config' = getConfig(env)
       /\ requestId' = context.awsRequestId
       /\ timestamp' = now
       /\ origin' = OrElse(Header(r.headers, "origin"), Header(r.headers, "Origin"))
       /\ IF ~context.present
          THEN /\ thrown' = Append(thrown, TypeError("awsRequestId"))
               /\ pc' = "rejected"
               /\ UNCHANGED << response, logs >>
          ELSE IF e.shape = "absent"
          THEN CatchAll(TypeError("Records"), context.awsRequestId, Missing, failing, logs)
          ELSE IF "log" \in failing
          THEN \E error \in LoggerErrors : CatchAll(error, context.awsRequestId, Missing, failing, logs)
          ELSE /\ logs' = logs \o
                    << Line("log", <<"[", context.awsRequestId, "] ", "Received ",
                                     r.httpMethod, " request at ", now>>),
                       Line("log", <<"[", context.awsRequestId, "] ", "Path: ", r.path>>),
                       Line("log", <<"[", context.awsRequestId, "] ", "Event Type: ", e.shape>>),
                       Line("log", <<"[", context.awsRequestId, "] ", "Full Event Object:">>
                                     \o BodyPieces(e.body)) >>
               /\ pc' = "route"
               /\ UNCHANGED << response, thrown >>
  /\ UNCHANGED << env, parked, normalized, checked, parsedBody, callArgs, backend, timer, race, urls, calls, stages >>

InvokeUniversal == InvokeUniversalWith(UniversalEvents, Contexts, Consoles)

InvokeProxy == InvokeProxyWith(ProxyEvents, Contexts, Consoles)

\* const path = request.path || '/'
RoutePath == OrElse(request.path, "/")

HealthPayload ==
  ObjectBody({ <<"status", "ok">>,
               <<"message", "Replicate proxy server is running">>,
               <<"timestamp", timestamp>>,
               <<"requestId", requestId>> })

InstructionsPayload ==
  ObjectBody({ <<"message", "Replicate API Proxy">>,
               <<"instructions.method", "POST">>,
               <<"instructions.endpoint", "/api/replicate">>,
               <<"instructions.body.model", "black-forest-labs/flux-schnell">>,
               <<"instructions.body.input", "{ your model input parameters }">>,
               <<"instructions.body.apiKey", "your-replicate-api-key">> })

NotFoundMessage(method, path) == "Route " \o method \o ":" \o path \o " not found"

\* Mutant: the health check answers every method.
Route_AnyMethod ==
  /\ pc = "route"
  /\ IF RoutePath = "/health"
     THEN /\ Return(ok(HealthPayload, originArg, env))
          /\ UNCHANGED logs
     ELSE IF RoutePath = "/api/replicate" /\ request.httpMethod = "OPTIONS"
     THEN /\ Return(corsPreflightResponse(originArg, env))
          /\ UNCHANGED logs
     ELSE IF RoutePath = "/api/replicate" /\ request.httpMethod = "GET"
     THEN /\ Return(ok(InstructionsPayload, originArg, env))
          /\ UNCHANGED logs
     ELSE IF RoutePath = "/api/replicate" /\ request.httpMethod = "POST"
     THEN /\ pc' = "size"
          /\ UNCHANGED << response, logs >>
     ELSE /\ Return(notFound(NotFoundMessage(request.httpMethod, RoutePath), originArg, env))
          /\ logs' = Append(logs, Line("log", Tag \o <<"Route not found: ",
                                       request.httpMethod, ":", RoutePath>>))
  /\ UNCHANGED << env, parked, normalized, checked, console, thrown, entry, event, request, requestId, timestamp, config, origin,
                  parsedBody, callArgs, backend, timer, race, urls, calls, stages >>

\* The routing: health check, preflight, instructions, the proxy flow, or
\* not found.
Route ==
  /\ pc = "route"
  /\ IF RoutePath = "/health" /\ request.httpMethod = "GET"
     THEN /\ Return(ok(HealthPayload, originArg, env))
          /\ UNCHANGED logs
     ELSE IF RoutePath = "/api/replicate" /\ request.httpMethod = "OPTIONS"
     THEN /\ Return(corsPreflightResponse(originArg, env))
          /\ UNCHANGED logs
     ELSE IF RoutePath = "/api/replicate" /\ request.httpMethod = "GET"
     THEN /\ Return(ok(InstructionsPayload, originArg, env))
          /\ UNCHANGED logs
     ELSE IF RoutePath = "/api/replicate" /\ request.httpMethod = "POST"
     THEN /\ pc' = "size"
          /\ UNCHANGED << response, logs >>
     ELSE /\ Return(notFound(NotFoundMessage(request.httpMethod, RoutePath), originArg, env))
          /\ logs' = Append(logs, Line("log", Tag \o <<"Route not found: ",
                                       request.httpMethod, ":", RoutePath>>))
  /\ UNCHANGED << env, parked, normalized, checked, console, thrown, entry, event, request, requestId, timestamp, config, origin,
                  parsedBody, callArgs, backend, timer, race, urls, calls, stages >>

\* Mutant: the empty string counts as a body.
BodyTruthy_NotNull(body) == ~body.null

\* request.body as a condition: null, undefined and '' are falsy.
BodyTruthy(body) == ~body.null /\ body.chars # <<>>

TooLargeMessage(limit) ==
  "Request body too large. Maximum size: " \o NumStr(limit) \o " bytes"

\* The size check of the proxy flow.
SizeCheck ==
  /\ pc = "size"
  /\ stages' = Append(stages, "size")
  /\ IF BodyTruthy(request.body) /\ ~isValidJsonSize(request.body, config.maxRequestSize)
     THEN IF Fails("warn")
          THEN \E error \in LoggerErrors : Throw(error)
          ELSE /\ logs' = Append(logs, Line("warn", Tag \o <<"Request body too large: ",
                                            ToString(ByteLength(request.body)), " bytes">>))
               /\ Return(badRequest(TooLargeMessage(config.maxRequestSize), Missing,
                                    originArg, env))
               /\ UNCHANGED thrown
     ELSE /\ pc' = "parse"
          /\ UNCHANGED << response, logs, thrown >>
  /\ UNCHANGED << env, parked, normalized, checked, console, entry, event, request, requestId, timestamp, config, origin,
                  parsedBody, callArgs, backend, timer, race, urls, calls >>

\* The text '{}'.
EmptyObjectText == Text(<<1, 1>>, EmptyObject)

\* JSON.parse(text): the document, InvalidJson standing for a SyntaxError.
JsonParse(text) == text.doc

\* body = JSON.parse(request.body || '{}'), in its try block.
Parse ==
  /\ pc = "parse"
  /\ stages' = Append(stages, "parse")
  /\ LET text == IF BodyTruthy(request.body) THEN request.body ELSE EmptyObjectText
         parsed == JsonParse(text)
     IN IF parsed = InvalidJson
        THEN /\ IF Fails("error")
                THEN \E error \in LoggerErrors : Throw(error)
                ELSE /\ logs' = Append(logs, Line("error", Tag \o
                                         <<"Failed to parse request body:", "SyntaxError">>))
                     /\ Return(badRequest("Invalid JSON in request body", Missing,
                                          originArg, env))
                     /\ UNCHANGED thrown
             /\ UNCHANGED parsedBody
        ELSE /\ parsedBody' = parsed
             /\ pc' = "validate"
             /\ UNCHANGED << response, logs, thrown >>
  /\ UNCHANGED << env, parked, normalized, checked, console, entry, event, request, requestId, timestamp, config, origin,
                  callArgs, backend, timer, race, urls, calls >>

\* The field validation of the proxy flow.
Validate ==
  /\ pc = "validate"
  /\ stages' = Append(stages, "validate")
  /\ LET validation == validateReplicateRequest(parsedBody)
     IN IF ~validation.isValid
        THEN IF Fails("warn")
             THEN \E error \in LoggerErrors : Throw(error)
             ELSE /\ logs' = Append(logs, Line("warn", Tag \o <<"Request validation failed: ",
                                               validation.error>>))
                  /\ Return(badRequest(validation.error, Missing, originArg, env))
                  /\ UNCHANGED thrown
        ELSE /\ pc' = "call"
             /\ UNCHANGED << response, logs, thrown >>
  /\ UNCHANGED << env, parked, normalized, checked, console, entry, event, request, requestId, timestamp, config, origin,
                  parsedBody, callArgs, backend, timer, race, urls, calls >>

\* Mutant: the promise is returned as it is, no timer is set.
withTimeout_NoTimer(promise, timeoutMs, timeoutMessage) ==
  [ race  |-> promise,
    timer |-> [state |-> "none", message |-> timeoutMessage] ]

\* withTimeout(promise, timeoutMs, timeoutMessage): the race of the promise
\* against a timer that rejects with new Error(timeoutMessage).  The timer
\* is armed when withTimeout is called and nothing ever clears it.
withTimeout(promise, timeoutMs, timeoutMessage) ==
  [ race  |-> promise,
    timer |-> [state |-> "armed", message |-> timeoutMessage] ]

TimeoutMessage(timeoutMs) ==
  "Replicate API call timed out after " \o NumStr(timeoutMs) \o "ms"

\* apiKey.substring(0, 4) and apiKey.substring(apiKey.length - 4)
Prefix4(key) == SubSeq(key, 1, IF Len(key) < 4 THEN Len(key) ELSE 4)

Suffix4(key) == SubSeq(key, IF Len(key) < 4 THEN 1 ELSE Len(key) - 3, Len(key))

\* Mutant: the catch block issues the call again instead of returning.
CatchReplicateError_Retry(replicateError, logged) ==
  /\ logs' = Append(logged, Line("error", Tag \o <<"Replicate API error:", replicateError.message>>))
  /\ pc' = "call"
  /\ UNCHANGED << response, thrown >>

\* The catch block around the backend call, given the error caught and the
\* console output so far.  Reading a property of an error that is no object
\* throws, and so may console.error: both leave the block for the catch-all.
CatchReplicateError(replicateError, logged) ==
  IF ~replicateError.object
  THEN CatchAll(TypeError("message"), requestId, originArg, console, logged)
  ELSE IF Fails("error")
  THEN \E error \in LoggerErrors : CatchAll(error, requestId, originArg, console, logged)
  ELSE
    LET statusCode == IF replicateError.status # 0 THEN replicateError.status ELSE 500
        errorMessage == OrElse(replicateError.message, "Failed to call Replicate API")
        details == OrElse(replicateError.detail, errorMessage)
    IN /\ logs' = logged \o
            << Line("error", Tag \o <<"Replicate API error:", replicateError.message>>),
               Line("error", Tag \o <<"Error status:",
                                      IF replicateError.status # 0
                                      THEN ToString(replicateError.status) ELSE "none">>) >>
            \o (IF config.enableStackTraces
                THEN <<Line("error", Tag \o <<"Error stack:", "<stack>">>)>>
                ELSE <<>>)
       /\ Return(customError(statusCode, errorMessage, details, originArg, env))
       /\ UNCHANGED thrown

\* Mutant: the input of the request is dropped.
RunArguments_NoInput(body) ==
  [ model |-> Prop(body, "model"), input |-> Obj(<<>>), auth |-> Prop(body, "apiKey") ]

\* const { model, input, apiKey } = body, as handed to the client:
\* new Replicate({ auth: apiKey }).run(model, { input: input || {} })
RunArguments(body) ==
  [ model |-> Prop(body, "model"),
    input |-> IF Truthy(Prop(body, "input")) THEN Prop(body, "input") ELSE Obj(<<>>),
    auth  |-> Prop(body, "apiKey") ]

\* The backend call: the three lines are logged, the client is created with
\* the request's key and run is issued with the model and the input.  Either
\* of the two may throw, which the catch block handles at once; otherwise the
\* call is raced against the timer and the handler awaits the race.  A throw
\* is recorded as the rejection the await of the try block would have seen.
CallBackend ==
  /\ pc = "call"
  /\ LET model == Prop(parsedBody, "model")
         input == Prop(parsedBody, "input")
         apiKey == Prop(parsedBody, "apiKey")
         guarded == withTimeout(Pending, config.replicateTimeout,
                                TimeoutMessage(config.replicateTimeout))
         logged == logs \o
             << Line("log", Tag \o <<"Proxying request to Replicate for model: ">> \o model.v),
                Line("log", Tag \o <<"Input parameters provided: ",
                                     ToString(IF Truthy(input) THEN Len(input.v) ELSE 0),
                                     " keys">>),
                Line("log", Tag \o <<"API key format: ">> \o Prefix4(apiKey.v)
                                \o <<"...">> \o Suffix4(apiKey.v)) >>
     IN /\ callArgs' = RunArguments(parsedBody)
        /\ \/ /\ logs' = logged
              /\ race' = guarded.race
              /\ timer' = guarded.timer
              /\ backend' = "pending"
              /\ pc' = "await"
              /\ UNCHANGED << response, thrown >>
           \/ /\ \E error \in BackendErrors :
                   /\ race' = Rejected(error)
                   /\ CatchReplicateError(error, logged)
              /\ backend' = "threw"
              /\ UNCHANGED timer
  /\ calls' = calls + 1
  /\ stages' = Append(stages, "backend")
  /\ UNCHANGED << env, parked, normalized, checked, console, entry, event, request, requestId, timestamp, config, origin,
                  parsedBody, urls >>

\* The backend settles the call; the race takes the first settlement only.
BackendResolve ==
  /\ backend = "pending"
  /\ \E result \in Results :
       race' = IF race.state = "pending" THEN Fulfilled(result) ELSE race
  /\ backend' = "settled"
  /\ UNCHANGED << env, parked, normalized, checked, console, thrown, pc, entry, event, request, requestId, timestamp, config, origin,
                  parsedBody, callArgs, timer, urls, response, calls, stages, logs >>

BackendReject ==
  /\ backend = "pending"
  /\ \E error \in BackendErrors :
       race' = IF race.state = "pending" THEN Rejected(error) ELSE race
  /\ backend' = "settled"
  /\ UNCHANGED << env, parked, normalized, checked, console, thrown, pc, entry, event, request, requestId, timestamp, config, origin,
                  parsedBody, callArgs, timer, urls, response, calls, stages, logs >>

\* Mutant: the timer's rejection replaces a race that is already settled.
TimerFire_Overwrite ==
  /\ timer.state = "armed"
  /\ timer' = [timer EXCEPT !.state = "fired"]
  /\ race' = Rejected(Error(timer.message, 0, Missing))
  /\ UNCHANGED << env, parked, normalized, checked, console, thrown, pc, entry, event, request, requestId, timestamp, config, origin,
                  parsedBody, callArgs, backend, urls, response, calls, stages, logs >>

\* The timer of withTimeout fires: reject(new Error(timeoutMessage)), which
\* a race that is already settled ignores.
TimerFire ==
  /\ timer.state = "armed"
  /\ timer' = [timer EXCEPT !.state = "fired"]
  /\ race' = IF race.state = "pending"
             THEN Rejected(Error(timer.message, 0, Missing))
             ELSE race
  /\ UNCHANGED << env, parked, normalized, checked, console, thrown, pc, entry, event, request, requestId, timestamp, config, origin,
                  parsedBody, callArgs, backend, urls, response, calls, stages, logs >>

\* A result that carries url() methods: a file output or a list of them.
HasUrls(result) == result.t \in {"file", "files"}

\* The handler resumes after the await of the race.  universalHandler
\* returns the result; the exported handler first converts file outputs to
\* their addresses, awaiting their url() calls.
Resume ==
  /\ pc = "await"
  /\ race.state # "pending"
  /\ IF race.state = "rejected"
     THEN /\ CatchReplicateError(race.error, logs)
          /\ UNCHANGED urls
     ELSE IF entry = "proxy" /\ HasUrls(race.value)
     THEN /\ logs' = Append(logs, Line("log", Tag \o <<"Replicate API call completed successfully">>))
          /\ urls' = "pending"
          /\ pc' = "urls"
          /\ UNCHANGED << response, thrown >>
     ELSE /\ logs' = logs \o
               << Line("log", Tag \o <<"Replicate API call completed successfully">>) >>
               \o (IF entry = "proxy"
                   THEN <<Line("log", Tag \o <<"Processed result:">> \o race.value.v)>>
                   ELSE <<>>)
          /\ Return(ok(race.value, originArg, env))
          /\ UNCHANGED << urls, thrown >>
  /\ UNCHANGED << env, parked, normalized, checked, console, entry, event, request, requestId, timestamp, config, origin,
                  parsedBody, callArgs, backend, timer, race, calls, stages >>

\* The url() calls of the exported handler are fulfilled: a file output
\* becomes its address, a list of them the list of their addresses.
UrlsResolve ==
  /\ pc = "urls"
  /\ urls = "pending"
  /\ urls' = "settled"
  /\ LET processedResult == IF race.value.t = "files"
                            THEN Arr(race.value.v)
                            ELSE [t |-> "url", v |-> race.value.v]
     IN /\ logs' = Append(logs, Line("log", Tag \o <<"Processed result:">> \o processedResult.v))
        /\ Return(ok(processedResult, originArg, env))
  /\ UNCHANGED << env, parked, normalized, checked, console, thrown, entry, event, request, requestId, timestamp, config, origin,
                  parsedBody, callArgs, backend, timer, race, calls, stages >>

\* A url() call is rejected: the error lands in the same catch block.
UrlsReject ==
  /\ pc = "urls"
  /\ urls = "pending"
  /\ urls' = "settled"
  /\ \E error \in BackendErrors : CatchReplicateError(error, logs)
  /\ UNCHANGED << env, parked, normalized, checked, console, entry, event, request, requestId, timestamp, config, origin,
                  parsedBody, callArgs, backend, timer, race, calls, stages >>

Next ==
  \/ InvokeUniversal
  \/ InvokeProxy
  \/ Route
  \/ SizeCheck
  \/ Parse
  \/ Validate
  \/ CallBackend
  \/ BackendResolve
  \/ BackendReject
  \/ TimerFire
  \/ Resume
  \/ UrlsResolve
  \/ UrlsReject

Spec == Init /\ [][Next]_vars

\* The same machine under the scheduling of the JavaScript runtime: the
\* steps of a handler are run as soon as they can be and an armed timer
\* fires; nothing obliges the backend to settle.  The requests are the few
\* below, most of which reach the backend call.
FairRequests ==
  { r \in Requests :
      /\ r.headers = NoHeaders
      /\ r.path \in {"/api/replicate", "/health"}
      /\ r.httpMethod \in {"GET", "POST"}
      /\ r.body \in { NullBody, Text(<<1>>, InvalidJson), Text(<<1, 3>>, EmptyObject),
                       Text(<<1>>, Object(ValidModel, ValidKey, Undefined)),
                       Text(<<3>>, Object(ValidModel, ValidKey, Obj(<<"prompt">>))) } }

FairUniversalEvents == { Event("universal", r) : r \in FairRequests }

FairProxyEvents == { Event("apigw1", r) : r \in FairRequests }

FairInvokeUniversal == InvokeUniversalWith(FairUniversalEvents, Contexts, Consoles)

FairInvokeProxy == InvokeProxyWith(FairProxyEvents, Contexts, Consoles)

HandlerStep == Route \/ SizeCheck \/ Parse \/ Validate \/ CallBackend \/ Resume

FairNext ==
  \/ FairInvokeUniversal
  \/ FairInvokeProxy
  \/ Route
  \/ SizeCheck
  \/ Parse
  \/ Validate
  \/ CallBackend
  \/ BackendResolve
  \/ BackendReject
  \/ TimerFire
  \/ Resume
  \/ UrlsResolve
  \/ UrlsReject

FairSpec == Init /\ [][FairNext]_vars /\ WF_vars(HandlerStep) /\ WF_vars(TimerFire)

\* The same machine in a faulty surrounding: a direct call may come without
\* a context or without an event, the console may throw, and the disclosure
\* of stack traces is configured either way.
FaultEnvs ==
  [ MAX_REQUEST_SIZE     : {<<"3">>},
    REPLICATE_TIMEOUT    : {Unset},
    CORS_ALLOWED_ORIGINS : {Unset},
    LOG_LEVEL            : {""},
    ENABLE_STACK_TRACES  : {"", "true", "false"},
    NODE_ENV             : {"", "production"} ]

FaultRequests ==
  { r \in Requests :
      /\ r.headers = NoHeaders
      /\ \/ r.httpMethod = "GET" /\ r.path \in {"/health", "/unknown"} /\ r.body = NullBody
         \/ /\ r.httpMethod = "POST" /\ r.path = "/api/replicate"
            /\ r.body \in { Text(<<1>>, InvalidJson), Text(<<3, 1>>, EmptyObject),
                             Text(<<1>>, Object(InvalidModel, ValidKey, Undefined)),
                             Text(<<1>>, Object(ValidModel, ValidKey, Undefined)) } }

FaultInit == Start(FaultEnvs)

FaultUniversalEvents == { Event("universal", r) : r \in FaultRequests } \cup {NoEvent}

FaultProxyEvents == { Event("apigw1", r) : r \in FaultRequests } \cup {NoEvent}

FaultInvokeUniversal == InvokeUniversalWith(FaultUniversalEvents, FaultContexts, FaultConsoles)

FaultInvokeProxy == InvokeProxyWith(FaultProxyEvents, FaultContexts, FaultConsoles)

FaultNext ==
  \/ FaultInvokeUniversal
  \/ FaultInvokeProxy
  \/ Route
  \/ SizeCheck
  \/ Parse
  \/ Validate
  \/ CallBackend
  \/ BackendResolve
  \/ BackendReject
  \/ TimerFire
  \/ Resume
  \/ UrlsResolve
  \/ UrlsReject

FaultSpec == FaultInit /\ [][FaultNext]_vars

\* Two invocations in one process.  JavaScript runs a handler until it
\* awaits; while it is suspended, or before it is called, or after it has
\* finished, the event loop may run the other invocation.  The locals of a
\* call belong to the call, so that the switch exchanges them all; the
\* environment and the console are the process's.

\* Mutant: the origin is kept in a variable of the module, shared by the
\* invocations.
Switch_SharedOrigin ==
  /\ pc \in {"idle", "await", "urls", "done", "rejected"}
  /\ parked' = Locals
  /\ pc' = parked.pc
  /\ entry' = parked.entry
  /\ event' = parked.event
  /\ request' = parked.request
  /\ requestId' = parked.requestId
  /\ timestamp' = parked.timestamp
  /\ config' = parked.config
  /\ parsedBody' = parked.parsedBody
  /\ callArgs' = parked.callArgs
  /\ backend' = parked.backend
  /\ timer' = parked.timer
  /\ race' = parked.race
  /\ urls' = parked.urls
  /\ response' = parked.response
  /\ calls' = parked.calls
  /\ stages' = parked.stages
  /\ thrown' = parked.thrown
  /\ UNCHANGED << env, console, logs, origin, normalized, checked >>

\* The event loop turns to the other invocation.
Switch ==
  /\ pc \in {"idle", "await", "urls", "done", "rejected"}
  /\ parked' = Locals
  /\ pc' = parked.pc
  /\ entry' = parked.entry
  /\ event' = parked.event
  /\ request' = parked.request
  /\ requestId' = parked.requestId
  /\ timestamp' = parked.timestamp
  /\ config' = parked.config
  /\ origin' = parked.origin
  /\ parsedBody' = parked.parsedBody
  /\ callArgs' = parked.callArgs
  /\ backend' = parked.backend
  /\ timer' = parked.timer
  /\ race' = parked.race
  /\ urls' = parked.urls
  /\ response' = parked.response
  /\ calls' = parked.calls
  /\ stages' = parked.stages
  /\ thrown' = parked.thrown
  /\ UNCHANGED << env, console, logs, normalized, checked >>

ConcurrentEnvs ==
  [ MAX_REQUEST_SIZE     : {<<"3">>},
    REPLICATE_TIMEOUT    : {Unset},
    CORS_ALLOWED_ORIGINS : {<<"https://app1.com", ",", "https://app2.com">>},
    LOG_LEVEL            : {""},
    ENABLE_STACK_TRACES  : {""},
    NODE_ENV             : {""} ]

ConcurrentRequests ==
  { [httpMethod |-> "GET", path |-> "/health",
     headers |-> ("Origin" :> "https://evil.com"), body |-> NullBody],
    [httpMethod |-> "POST", path |-> "/api/replicate",
     headers |-> ("origin" :> "https://app2.com"),
     body |-> Text(<<1>>, Object(ValidModel, ValidKey, Obj(<<"prompt">>)))],
    [httpMethod |-> "POST", path |-> "/api/replicate",
     headers |-> NoHeaders, body |-> Text(<<1>>, Object(InvalidModel, ShortKey, Undefined))] }

ConcurrentContexts == { Context("req-1"), Context("req-2") }

ConcurrentInit == Start(ConcurrentEnvs)

ConcurrentUniversalEvents == { Event("universal", r) : r \in ConcurrentRequests }

ConcurrentProxyEvents == { Event("apigw1", r) : r \in ConcurrentRequests }

ConcurrentInvokeUniversal ==
  InvokeUniversalWith(ConcurrentUniversalEvents, ConcurrentContexts, Consoles)

ConcurrentInvokeProxy == InvokeProxyWith(ConcurrentProxyEvents, ConcurrentContexts, Consoles)

ConcurrentNext ==
  \/ ConcurrentInvokeUniversal
  \/ ConcurrentInvokeProxy
  \/ Route
  \/ SizeCheck
  \/ Parse
  \/ Validate
  \/ CallBackend
  \/ BackendResolve
  \/ BackendReject
  \/ TimerFire
  \/ Resume
  \/ UrlsResolve
  \/ UrlsReject
  \/ Switch

ConcurrentSpec == ConcurrentInit /\ [][ConcurrentNext]_vars

\* The same machine in a process whose environment is changed by other code
\* while the handler is suspended on the backend call.  process.env is read
\* by every call of getConfig: the one at the top of the handler and the one
\* inside getCorsHeaders.
ReconfigureEnvs ==
  [ MAX_REQUEST_SIZE     : {<<"3">>},
    REPLICATE_TIMEOUT    : {Unset, <<"5", "0">>},
    CORS_ALLOWED_ORIGINS : {Unset, <<"https://app1.com", ",", "https://app2.com">>},
    LOG_LEVEL            : {""},
    ENABLE_STACK_TRACES  : {""},
    NODE_ENV             : {""} ]

ReconfigureInit == Start(ReconfigureEnvs)

ReconfigureInvokeUniversal == InvokeUniversalWith(ConcurrentUniversalEvents, Contexts, Consoles)

ReconfigureInvokeProxy == InvokeProxyWith(ConcurrentProxyEvents, Contexts, Consoles)

\* process.env is assigned while the invocation awaits the race.
Reconfigure ==
  /\ pc = "await"
  /\ env' \in ReconfigureEnvs \ {env}
  /\ UNCHANGED << console, thrown, pc, entry, event, request, requestId, timestamp, config, origin,
                  parsedBody, callArgs, backend, timer, race, urls, response, calls, stages, logs,
                  parked, normalized, checked >>

ReconfigureNext ==
  \/ ReconfigureInvokeUniversal
  \/ ReconfigureInvokeProxy
  \/ Route
  \/ SizeCheck
  \/ Parse
  \/ Validate
  \/ CallBackend
  \/ BackendResolve
  \/ BackendReject
  \/ TimerFire
  \/ Resume
  \/ UrlsResolve
  \/ UrlsReject
  \/ Reconfigure

ReconfigureSpec == ReconfigureInit /\ [][ReconfigureNext]_vars

\* The normalizers, each called on an event of its shape that carries the
\* content the behaviour starts with.  They read nothing but the event.

Handler ==
  << env, console, thrown, pc, entry, event, request, requestId, timestamp, config, origin,
     parsedBody, callArgs, backend, timer, race, urls, response, calls, stages, logs,
     parked >>

NormalizerEnvs ==
  [ MAX_REQUEST_SIZE     : {Unset},
    REPLICATE_TIMEOUT    : {Unset},
    CORS_ALLOWED_ORIGINS : {Unset},
    LOG_LEVEL            : {""},
    ENABLE_STACK_TRACES  : {""},
    NODE_ENV             : {""} ]

NormalizerInit == StartWith(NormalizerEnvs, Contents, {Undefined})

\* fromApiGateway(event)
CallFromApiGateway ==
  /\ "gateway" \notin normalized.done
  /\ \E e \in GatewayEvents(normalized.content) :
       normalized' = [normalized EXCEPT !.done = @ \cup {"gateway"},
                                        !.gatewayEvent = e,
                                        !.gateway = fromApiGateway(e)]
  /\ UNCHANGED << Handler, checked >>

\* fromDirectLambda(event), the event a Lambda@Edge one
CallFromLambdaEdge ==
  /\ "edge" \notin normalized.done
  /\ \E e \in EdgeEvents(normalized.content) :
       normalized' = [normalized EXCEPT !.done = @ \cup {"edge"},
                                        !.edgeEvent = e,
                                        !.edge = fromDirectLambda(e)]
  /\ UNCHANGED << Handler, checked >>

\* fromDirectLambda(event), the event a custom one, or {}
CallFromDirectLambda ==
  /\ "direct" \notin normalized.done
  /\ \E e \in GenericEvents(normalized.content) \cup {EmptyEvent} :
       normalized' = [normalized EXCEPT !.done = @ \cup {"direct"},
                                        !.directEvent = e,
                                        !.direct = fromDirectLambda(e)]
  /\ UNCHANGED << Handler, checked >>

NormalizerNext ==
  \/ CallFromApiGateway
  \/ CallFromLambdaEdge
  \/ CallFromDirectLambda

NormalizerSpec == NormalizerInit /\ [][NormalizerNext]_vars

\* fromDirectLambda called on an event that has both the Lambda@Edge
\* records of the content the behaviour starts with and, at its top level,
\* the httpMethod, path, headers, body and query of another request.
OverlaidContents ==
  [ method  : {"GET", "POST"},
    path    : {"/health"},
    headers : {NoHeaders, ("origin" :> "https://other.com")},
    body    : {Null, Str(<< 123, 125 >>)},
    query   : {Null} ]

Overlay(e, g) ==
  [e EXCEPT !.httpMethod = g.method, !.path = g.path, !.headers = Map(g.headers),
            !.body = g.body, !.queryStringParameters = g.query]

CallFromDirectLambdaOnBoth ==
  /\ "direct" \notin normalized.done
  /\ \E e \in EdgeEvents(normalized.content), g \in OverlaidContents :
       normalized' = [normalized EXCEPT !.done = @ \cup {"direct"},
                                        !.directEvent = Overlay(e, g),
                                        !.direct = fromDirectLambda(Overlay(e, g))]
  /\ UNCHANGED << Handler, checked >>

OverlapNext ==
  \/ CallFromApiGateway
  \/ CallFromDirectLambdaOnBoth

OverlapSpec == NormalizerInit /\ [][OverlapNext]_vars

\* The validation functions, each applied to the value the behaviour starts
\* with.

ValidatorInit == StartWith(NormalizerEnvs, {NoContent}, ValidatorInputs)

\* isValidModelName(value)
CallIsValidModelName ==
  /\ checked.by = "none"
  /\ checked' = [checked EXCEPT !.by = "isValidModelName",
                                !.verdict = isValidModelName(checked.value)]
  /\ UNCHANGED << Handler, normalized >>

\* isValidApiKey(value)
CallIsValidApiKey ==
  /\ checked.by = "none"
  /\ checked' = [checked EXCEPT !.by = "isValidApiKey",
                                !.verdict = isValidApiKey(checked.value)]
  /\ UNCHANGED << Handler, normalized >>

\* validateReplicateRequest({model: 'o/m', apiKey: value})
CallValidateReplicateRequest ==
  /\ checked.by = "none"
  /\ LET validation == validateReplicateRequest(Object(ValidModel, checked.value, Undefined))
     IN  checked' = [checked EXCEPT !.by = "validateReplicateRequest",
                                    !.verdict = validation.isValid,
                                    !.error = validation.error]
  /\ UNCHANGED << Handler, normalized >>

ValidatorNext ==
  \/ CallIsValidModelName
  \/ CallIsValidApiKey
  \/ CallValidateReplicateRequest

ValidatorSpec == ValidatorInit /\ [][ValidatorNext]_vars

\* ------------------------------------------------------------------------
\* Vocabulary of the properties
\* ------------------------------------------------------------------------

\* The invocation has returned.
Returned == pc = "done"

\* The invocation is one of POST /api/replicate.
IsProxyRequest ==
  pc # "idle" /\ RoutePath = "/api/replicate" /\ request.httpMethod = "POST"

FlowOrder == <<"size", "parse", "validate", "backend">>

IsPrefix(s, t) == Len(s) <= Len(t) /\ s = SubSeq(t, 1, Len(s))

\* The error field of the response body.
ResponseError == Field(response.body, "error")

ResponseDetails == Field(response.body, "details")

FieldErrors == {BodyObjectError, ModelError, ApiKeyError, InputError}

\* The body is a non-empty text of more bytes than a numeric limit allows.
Oversized(body, limit) == BodyTruthy(body) /\ ~limit.nan /\ ByteLength(body) > limit.n

\* The body is empty or absent, or a text within a numeric limit.
Fits(body, limit) == ~BodyTruthy(body) \/ (~limit.nan /\ ByteLength(body) <= limit.n)

\* The text the parser is given.
ParsedText == IF BodyTruthy(request.body) THEN request.body ELSE EmptyObjectText

\* ------------------------------------------------------------------------
\* C1: in the proxy flow the stages run in the order size check, JSON parse,
\* field validation, backend call; the first stage that fails ends the
\* invocation with its own 400 error (an oversized body that is also
\* invalid JSON reports the size error), and the backend is called only
\* when the three earlier stages passed.
\* ------------------------------------------------------------------------
C1_StagesInOrder ==
  /\ IsPrefix(stages, FlowOrder)
  /\ (Returned /\ stages = <<"size">>) =>
       /\ response.statusCode = 400
       /\ ResponseError = TooLargeMessage(config.maxRequestSize)
  /\ (Returned /\ stages = <<"size", "parse">>) =>
       /\ response.statusCode = 400
       /\ ResponseError = "Invalid JSON in request body"
  /\ (Returned /\ stages = <<"size", "parse", "validate">>) =>
       /\ response.statusCode = 400
       /\ ResponseError \in FieldErrors
  /\ (Returned /\ IsProxyRequest /\ Oversized(request.body, config.maxRequestSize)) =>
       /\ stages = <<"size">>
       /\ response.statusCode = 400
       /\ ResponseError = TooLargeMessage(config.maxRequestSize)
  /\ (Returned /\ IsProxyRequest /\ Fits(request.body, config.maxRequestSize)
        /\ JsonParse(ParsedText) = InvalidJson) =>
       /\ stages = <<"size", "parse">>
       /\ ResponseError = "Invalid JSON in request body"
  /\ (Returned /\ IsProxyRequest /\ Fits(request.body, config.maxRequestSize)
        /\ JsonParse(ParsedText) # InvalidJson
        /\ ~validateReplicateRequest(JsonParse(ParsedText)).isValid) =>
       /\ stages = <<"size", "parse", "validate">>
       /\ ResponseError = validateReplicateRequest(JsonParse(ParsedText)).error
  /\ calls > 0 =>
       /\ IsProxyRequest
       /\ SubSeq(stages, 1, 3) = <<"size", "parse", "validate">>
       /\ ~Oversized(request.body, config.maxRequestSize)
       /\ JsonParse(ParsedText) # InvalidJson
       /\ validateReplicateRequest(JsonParse(ParsedText)).isValid

\* An oversized body that is not JSON either was answered with the size error.
C1_Witness ==
  /\ Returned
  /\ IsProxyRequest
  /\ Oversized(request.body, config.maxRequestSize)
  /\ JsonParse(request.body) = InvalidJson
  /\ response.statusCode = 400
  /\ ResponseError = TooLargeMessage(config.maxRequestSize)

\* ------------------------------------------------------------------------
\* C2: when the backend call has not settled by the time the timer fires,
\* the invocation does not hang: it returns status 500 with the error and
\* the details both 'Replicate API call timed out after {timeout}ms'.
\* ------------------------------------------------------------------------

\* The timer fired while the backend call was pending, and won the race.
TimedOut ==
  /\ timer.state = "fired"
  /\ race = Rejected(Error(timer.message, 0, Missing))

TimeoutResponse ==
  /\ response.statusCode = 500
  /\ ResponseError = TimeoutMessage(config.replicateTimeout)
  /\ ResponseDetails = TimeoutMessage(config.replicateTimeout)

C2_TimeoutAnswered ==
  /\ [](pc = "await" => <>(pc # "await"))
  /\ [](TimedOut => <>(Returned /\ TimeoutResponse))

\* The timer won the race and the invocation returned the timeout failure.
C2_Witness == Returned /\ TimedOut /\ backend = "pending" /\ TimeoutResponse

\* ------------------------------------------------------------------------
\* C3: a request causes at most one backend call and there is no retry: a
\* backend failure or a timeout is returned by the handler's next step as
\* an error response, and a request that fails the size check, the parse or
\* the validation, or that is for another route, causes no backend call.
\* ------------------------------------------------------------------------

\* The request does not get through the three stages before the call.
FailsEarly ==
  \/ BodyTruthy(request.body) /\ ~LessOrEqual(ByteLength(request.body), config.maxRequestSize)
  \/ JsonParse(ParsedText) = InvalidJson
  \/ ~validateReplicateRequest(JsonParse(ParsedText)).isValid

C3_AtMostOneCall ==
  /\ [](/\ calls <= 1
        /\ (Returned /\ ~IsProxyRequest) => calls = 0
        /\ (Returned /\ IsProxyRequest /\ FailsEarly) => calls = 0
        /\ (Returned /\ race.state = "rejected") =>
             /\ calls = 1
             /\ response.statusCode >= 400
             /\ ResponseError # Missing)
  /\ [][(pc = "await" /\ race.state = "rejected" /\ pc' # pc) =>
          (pc' = "done" /\ calls' = calls /\ response'.statusCode >= 400)]_vars

\* A backend failure was returned after exactly one call.
C3_Witness ==
  /\ Returned
  /\ calls = 1
  /\ race.state = "rejected"
  /\ backend = "settled"
  /\ response.statusCode = 404

\* ------------------------------------------------------------------------
\* C4: every response, of every route outcome and every error path, has
\* the four fixed headers: Access-Control-Allow-Origin,
\* Access-Control-Allow-Methods 'GET, POST, OPTIONS',
\* Access-Control-Allow-Headers 'Content-Type, Authorization' and
\* Content-Type 'application/json'.
\* ------------------------------------------------------------------------
C4_FixedHeaders ==
  Returned =>
    /\ {AllowOrigin, AllowMethods, AllowHeaders, ContentType} \subseteq DOMAIN response.headers
    /\ response.headers[AllowOrigin] # Missing
    /\ response.headers[AllowMethods] = "GET, POST, OPTIONS"
    /\ response.headers[AllowHeaders] = "Content-Type, Authorization"
    /\ response.headers[ContentType] = "application/json"

\* The response of an error path, a backend failure, has the four headers.
C4_Witness ==
  /\ Returned
  /\ race.state = "rejected"
  /\ response.statusCode = 500
  /\ DOMAIN response.headers = {AllowOrigin, AllowMethods, AllowHeaders, ContentType}

\* ------------------------------------------------------------------------
\* C5: the Access-Control-Allow-Origin of universalHandler's responses is
\* computed from the configured allow-list and the request's origin (the
\* header 'origin', else 'Origin'): '*' when the allow-list contains '*';
\* otherwise the origin itself when it is non-empty and in the allow-list;
\* otherwise the first configured origin when a non-empty origin is not
\* allowed; and '*' when the request has no origin or an empty one.
\* ------------------------------------------------------------------------

\* headers.origin || headers.Origin of the request at hand.
HeaderOrigin == OrElse(Header(request.headers, "origin"), Header(request.headers, "Origin"))

\* The Origin header as sent: the value under 'origin', else under 'Origin',
\* whether empty or not.
SentOrigin ==
  IF "origin" \in DOMAIN request.headers THEN request.headers["origin"]
  ELSE Header(request.headers, "Origin")

AllowedOrigins == config.corsAllowedOrigins

Restricted == ~Includes(AllowedOrigins, "*")

C5_AllowOrigin ==
  (Returned /\ entry = "universal") =>
    LET acao == response.headers[AllowOrigin] IN
    /\ origin = HeaderOrigin
    /\ ~Restricted => acao = "*"
    /\ (Restricted /\ TruthyStr(origin) /\ Includes(AllowedOrigins, origin)) => acao = origin
    /\ (Restricted /\ TruthyStr(origin) /\ ~Includes(AllowedOrigins, origin)) =>
         acao = AllowedOrigins[1]
    /\ ~TruthyStr(origin) => acao = "*"

\* An origin outside a restricted allow-list was answered with the first
\* configured origin.
C5_Witness ==
  /\ Returned
  /\ entry = "universal"
  /\ AllowedOrigins = <<"https://app1.com", "https://app2.com">>
  /\ origin = "https://evil.com"
  /\ response.headers[AllowOrigin] = "https://app1.com"

\* C5 as stated, an Origin header being present whenever the request
\* carries one: a present Origin outside the allow-list gets the first
\* configured origin, and only a request without the header gets '*'.
C5_AsStated ==
  (Returned /\ entry = "universal") =>
    LET acao == response.headers[AllowOrigin] IN
    /\ ~Restricted => acao = "*"
    /\ (Restricted /\ SentOrigin # Missing /\ Includes(AllowedOrigins, SentOrigin)) =>
         acao = SentOrigin
    /\ (Restricted /\ SentOrigin # Missing /\ ~Includes(AllowedOrigins, SentOrigin)) =>
         acao = AllowedOrigins[1]
    /\ SentOrigin = Missing => acao = "*"

\* ------------------------------------------------------------------------
\* C6: every response of the exported handler carries the
\* Access-Control-Allow-Origin negotiated from the request's Origin header
\* and the allow-list: with the allow-list https://app1.com,https://app2.com
\* the origin https://evil.com gets https://app1.com and the origin
\* https://app2.com gets https://app2.com.
\* ------------------------------------------------------------------------
C6_ExportedHandlerNegotiates ==
  (Returned /\ entry = "proxy") =>
    LET acao == response.headers[AllowOrigin] IN
    /\ acao = getCorsHeaders(HeaderOrigin, env)[AllowOrigin]
    /\ AllowedOrigins = <<"https://app1.com", "https://app2.com">> =>
         /\ HeaderOrigin = "https://evil.com" => acao = "https://app1.com"
         /\ HeaderOrigin = "https://app2.com" => acao = "https://app2.com"

\* ------------------------------------------------------------------------
\* C7: validation returns the error of the first failing rule in the order
\* (1) the body is a non-null object, neither an array nor a primitive,
\* (2) model, (3) credential, (4) input: an array or primitive body gets
\* 'Request body must be a valid JSON object', and a body whose model and
\* credential are both invalid gets the model error only.
\* ------------------------------------------------------------------------

\* The outcome the rules give as C7 words them, rule 4 being the check of
\* the input as the validation makes it.
FirstFailingRule(body) ==
  IF body.t # "object" THEN BodyObjectError
  ELSE IF ~Truthy(body.model) \/ ~isValidModelName(body.model) THEN ModelError
  ELSE IF ~Truthy(body.apiKey) \/ ~isValidApiKey(body.apiKey) THEN ApiKeyError
  ELSE validateReplicateRequest(body).error

\* The invocation was ended by the field validation.
ValidationFailed == Returned /\ stages = <<"size", "parse", "validate">>

C7_FirstFailingRule ==
  ValidationFailed =>
    /\ response.statusCode = 400
    /\ ResponseError = FirstFailingRule(parsedBody)

\* ------------------------------------------------------------------------
\* C8: the input of the request body is accepted only when it is absent or
\* a non-null object that is not an array or a primitive; a null, string,
\* number or array input is rejected with 'Input must be an object if
\* provided'.
\* ------------------------------------------------------------------------

\* The body passes the rules on the body, the model and the credential.
ReachesInputRule ==
  /\ parsedBody.t = "object"
  /\ Truthy(parsedBody.model) /\ isValidModelName(parsedBody.model)
  /\ Truthy(parsedBody.apiKey) /\ isValidApiKey(parsedBody.apiKey)

C8_InputObjectOnly ==
  /\ calls > 0 => parsedBody.input.t \in {"undefined", "object"}
  /\ (Returned /\ IsProxyRequest /\ ReachesInputRule
        /\ parsedBody.input.t \in {"null", "string", "number", "array"}) =>
       /\ response.statusCode = 400
       /\ ResponseError = InputError

\* ------------------------------------------------------------------------
\* C9: a POST /api/replicate body is rejected with the 400 size error if and
\* only if it is a non-empty text whose UTF-8 byte length (not its character
\* count) is not within the limit: strictly greater than a numeric
\* maxRequestSize, or of any length when maxRequestSize is NaN.  A body of
\* exactly maxRequestSize bytes passes the size check; an absent or empty
\* body is never rejected for its size.
\* ------------------------------------------------------------------------

\* The UTF-8 byte length of a body's text.
Utf8Bytes(body) == Sum(body.chars)

\* The size check has run on the request.
SizeChecked == stages # <<>>

\* The invocation was ended by the size check, with the size error.
SizeRejected ==
  /\ Returned
  /\ stages = <<"size">>
  /\ response.statusCode = 400
  /\ ResponseError = TooLargeMessage(config.maxRequestSize)

\* The invocation got past the size check.
SizePassed == pc = "parse" \/ Len(stages) >= 2

C9_SizeRejection ==
  SizeChecked =>
    /\ SizeRejected \/ SizePassed
    /\ SizeRejected <=>
         /\ BodyTruthy(request.body)
         /\ (config.maxRequestSize.nan \/ Utf8Bytes(request.body) > config.maxRequestSize.n)
    /\ (~config.maxRequestSize.nan /\ Utf8Bytes(request.body) = config.maxRequestSize.n) =>
         SizePassed

\* A body of no more characters than the limit, but of more bytes, was
\* rejected.
C9_Witness ==
  /\ SizeRejected
  /\ ~config.maxRequestSize.nan
  /\ Len(request.body.chars) <= config.maxRequestSize.n
  /\ Utf8Bytes(request.body) > config.maxRequestSize.n

\* C9 as stated: rejected if and only if the body is present and its byte
\* length is strictly greater than maxRequestSize.
C9_AsStated ==
  SizeChecked =>
    (SizeRejected <=>
       /\ ~request.body.null
       /\ ~config.maxRequestSize.nan
       /\ Utf8Bytes(request.body) > config.maxRequestSize.n)

\* ------------------------------------------------------------------------
\* C10: routing is by exact (method, path) match: GET /health returns the
\* health payload, OPTIONS /api/replicate the empty-body 200 preflight,
\* GET /api/replicate the usage instructions, POST /api/replicate enters
\* the proxy flow, and every other pair returns 404 with message
\* 'Route {METHOD}:{path} not found', error 'Not Found' and statusCode 404.
\* ------------------------------------------------------------------------

\* The routing has run.
Routed == pc \notin {"idle", "route"}

IsRoute(method, path) == request.httpMethod = method /\ RoutePath = path

C10_ExactRouting ==
  Routed =>
    /\ IsRoute("GET", "/health") =>
         /\ Returned
         /\ response.statusCode = 200
         /\ Field(response.body, "status") = "ok"
         /\ Field(response.body, "message") = "Replicate proxy server is running"
         /\ Field(response.body, "timestamp") = timestamp
         /\ Field(response.body, "requestId") = requestId
    /\ IsRoute("OPTIONS", "/api/replicate") =>
         /\ Returned
         /\ response.statusCode = 200
         /\ response.body = TextBody(Str(<<>>))
    /\ IsRoute("GET", "/api/replicate") =>
         /\ Returned
         /\ response.statusCode = 200
         /\ Field(response.body, "message") = "Replicate API Proxy"
         /\ Field(response.body, "instructions.endpoint") = "/api/replicate"
    /\ IsRoute("POST", "/api/replicate") => (pc = "size" \/ SizeChecked)
    /\ ~IsRoute("POST", "/api/replicate") => (stages = <<>> /\ calls = 0)
    /\ (/\ ~IsRoute("GET", "/health")
        /\ ~IsRoute("OPTIONS", "/api/replicate")
        /\ ~IsRoute("GET", "/api/replicate")
        /\ ~IsRoute("POST", "/api/replicate")) =>
         /\ Returned
         /\ response.statusCode = 404
         /\ Field(response.body, "message")
              = "Route " \o request.httpMethod \o ":" \o RoutePath \o " not found"
         /\ Field(response.body, "error") = "Not Found"
         /\ Field(response.body, "statusCode") = "404"

\* DELETE /health, a known path under another method, was answered 404.
C10_Witness ==
  /\ Returned
  /\ IsRoute("DELETE", "/health")
  /\ response.statusCode = 404
  /\ Field(response.body, "message") = "Route DELETE:/health not found"

\* ------------------------------------------------------------------------
\* C11: every rejection or exception of the backend call, one raised while
\* the client is created or the call is issued and one that carries no
\* error object included, is caught at the forwarding boundary and returned
\* with the status of the error (500 when absent), its message as the error
\* and its detail (the message when absent) as the details; it never
\* reaches the catch-all and never leaves the handler.
\* ------------------------------------------------------------------------

\* The backend call failed: it threw, was rejected or was timed out.
BackendFailed == race.state = "rejected" /\ urls = "none"

\* The invocation is over: the handler returned or its promise was rejected.
Finished == pc \in {"done", "rejected"}

C11_BackendFailureTranslated ==
  (Finished /\ BackendFailed) =>
    LET message == OrElse(race.error.message, "Failed to call Replicate API") IN
    /\ Returned
    /\ thrown = <<>>
    /\ response.statusCode = (IF race.error.status # 0 THEN race.error.status ELSE 500)
    /\ ResponseError = message
    /\ ResponseDetails = OrElse(race.error.detail, message)

\* ------------------------------------------------------------------------
\* C12: the handlers never throw or reject: for every event and every
\* context, a missing context and a console that throws while the catch-all
\* runs included, the invocation ends by returning a response.
\* ------------------------------------------------------------------------
C12_AlwaysReturns ==
  Finished =>
    /\ Returned
    /\ response # NoResponse

\* ------------------------------------------------------------------------
\* C13: an exception raised in the handler's own code, outside the backend
\* call, one raised by logging or by the access to the context included,
\* yields status 500 with error 'Internal server error' and, as details,
\* the message of the exception ('Unknown error' when it has none).
\* ------------------------------------------------------------------------

\* An exception was raised in the handler's own code.
Raised == thrown # <<>>

C13_ExceptionIsInternalError ==
  (Finished /\ Raised) =>
    /\ Returned
    /\ response.statusCode = 500
    /\ ResponseError = "Internal server error"
    /\ ResponseDetails = OrElse(thrown[1].message, "Unknown error")

\* ------------------------------------------------------------------------
\* C14: no response body has a stack field unless the disclosure of stack
\* traces is enabled (ENABLE_STACK_TRACES is 'true', or it is not 'false'
\* and NODE_ENV is not 'production'); the responses to a backend error, a
\* validation failure and an unknown route never have one.
\* ------------------------------------------------------------------------

\* The setting, as the environment gives it.
StackTracesEnabled ==
  \/ env.ENABLE_STACK_TRACES = "true"
  \/ (env.ENABLE_STACK_TRACES # "false" /\ env.NODE_ENV # "production")

HasStack == Field(response.body, "stack") # Missing

C14_StackOnlyWhenEnabled ==
  Returned =>
    /\ HasStack => StackTracesEnabled
    /\ ~Raised => ~HasStack
    /\ response.statusCode \in {400, 404} => ~HasStack

\* In production the catch-all answered an exception without a stack.
C14_Witness ==
  /\ Returned
  /\ Raised
  /\ env.NODE_ENV = "production"
  /\ env.ENABLE_STACK_TRACES = ""
  /\ response.statusCode = 500
  /\ ResponseError = "Internal server error"
  /\ ~HasStack

\* ------------------------------------------------------------------------
\* C15: for a successful backend call that returns a JSON value r (array,
\* object, string, number, boolean or null), the response has status 200
\* and a body that is a string whose JSON decoding is r.
\* ------------------------------------------------------------------------

\* JSON.parse of the characters of a text that is no JSON.stringify of this
\* module: a number, a literal, or a SyntaxError.
ParseJsonText(chars) ==
  IF chars # <<>> /\ \A i \in 1..Len(chars) : IsDigit(chars[i]) THEN Num(chars)
  ELSE IF chars = <<"n", "u", "l", "l">> THEN Null
  ELSE IF chars = <<"t", "r", "u", "e">> THEN Bool("true")
  ELSE IF chars = <<"f", "a", "l", "s", "e">> THEN Bool("false")
  ELSE [t |-> "invalid", v |-> <<>>]

\* JSON.parse of a response body: a body written by JSON.stringify decodes
\* to the value it was written from, a verbatim text is parsed as it is.
JsonDecode(body) ==
  IF body.kind = "value" THEN body.value
  ELSE IF body.kind = "text" THEN ParseJsonText(body.value.v)
  ELSE [t |-> "invalid", v |-> <<>>]

JsonValues == {"array", "object", "string", "number", "boolean", "null"}

\* The backend call succeeded with a JSON value.
SucceededWithJson == race.state = "fulfilled" /\ race.value.t \in JsonValues

C15_ResultPassedThrough ==
  (Returned /\ SucceededWithJson) =>
    /\ response.statusCode = 200
    /\ response.body.kind \in {"text", "value"}
    /\ JsonDecode(response.body) = race.value

\* ------------------------------------------------------------------------
\* C16: when validation passes, the backend is called with the model and
\* the input of the request body as they are, an empty object when the
\* input is absent, and with the request's credential as the auth of the
\* call; before the call there are no arguments.
\* ------------------------------------------------------------------------

\* The document the request body holds.
RequestDoc == JsonParse(ParsedText)

C16_CallArguments ==
  /\ calls = 0 => callArgs = NoCall
  /\ calls > 0 =>
       /\ validateReplicateRequest(RequestDoc).isValid
       /\ callArgs.model = RequestDoc.model
       /\ callArgs.model.t = "string"
       /\ callArgs.auth = RequestDoc.apiKey
       /\ RequestDoc.input = Undefined => callArgs.input = Obj(<<>>)
       /\ RequestDoc.input # Undefined => callArgs.input = RequestDoc.input

\* A request with an input was forwarded with its model, input and key.
C16_Witness ==
  /\ calls = 1
  /\ callArgs = [ model |-> ValidModel, input |-> Obj(<<"prompt">>), auth |-> ValidKey ]
  /\ RequestDoc.input = Obj(<<"prompt">>)

\* ------------------------------------------------------------------------
\* C17: no log record written during an invocation contains the caller's
\* credential in full, for every credential the validator accepts; only its
\* first four and last four characters, apart, may appear.
\* ------------------------------------------------------------------------

\* The sequence sub occurs in seq as a contiguous run.
Contains(seq, sub) ==
  \E i \in 0..(Len(seq) - Len(sub)) : SubSeq(seq, i + 1, i + Len(sub)) = sub

\* The request carries, in a body that is some text, a credential the
\* validator accepts.
CarriesCredential ==
  /\ pc # "idle"
  /\ event.shape # "absent"
  /\ ~event.body.null
  /\ Truthy(event.body.doc.apiKey)
  /\ isValidApiKey(event.body.doc.apiKey)

C17_CredentialNotLogged ==
  CarriesCredential =>
    \A i \in 1..Len(logs) : ~Contains(logs[i].pieces, event.body.doc.apiKey.v)

\* The same, of universalHandler alone.
UniversalHandlerMasksCredential ==
  (CarriesCredential /\ entry = "universal") =>
    \A i \in 1..Len(logs) : ~Contains(logs[i].pieces, event.body.doc.apiKey.v)

\* ------------------------------------------------------------------------
\* C18: concurrent invocations share no mutable state: in every
\* interleaving of two invocations the response of each is the one it gives
\* when run alone with the same event, environment and backend outcome; the
\* steps of one leave the other's state, and the environment, as they are.
\* ------------------------------------------------------------------------

\* The response to a backend failure with the given error.
FailureResponse(error, org) ==
  IF ~error.object
  THEN internalServerError("Internal server error", TypeError("message").message,
                           IF getConfig(env).enableStackTraces THEN "<stack>" ELSE Missing,
                           org, env)
  ELSE customError(IF error.status # 0 THEN error.status ELSE 500,
                   OrElse(error.message, "Failed to call Replicate API"),
                   OrElse(error.detail, OrElse(error.message, "Failed to call Replicate API")),
                   org, env)

\* The responses an invocation with the local state l gives on its own, as
\* a function of its event, its context, the environment and the outcome
\* of its backend call: one response, or those of the possible failures of
\* the url() calls.
SoloResponses(l) ==
  LET r == l.request
      path == OrElse(r.path, "/")
      org == IF l.entry = "universal"
             THEN OrElse(Header(r.headers, "origin"), Header(r.headers, "Origin"))
             ELSE Missing
      limit == getConfig(env).maxRequestSize
      text == IF BodyTruthy(r.body) THEN r.body ELSE EmptyObjectText
      doc == JsonParse(text)
      health == ObjectBody({ <<"status", "ok">>,
                             <<"message", "Replicate proxy server is running">>,
                             <<"timestamp", l.timestamp>>,
                             <<"requestId", l.requestId>> })
  IN IF path = "/health" /\ r.httpMethod = "GET" THEN {ok(health, org, env)}
     ELSE IF path = "/api/replicate" /\ r.httpMethod = "OPTIONS"
     THEN {corsPreflightResponse(org, env)}
     ELSE IF path = "/api/replicate" /\ r.httpMethod = "GET"
     THEN {ok(InstructionsPayload, org, env)}
     ELSE IF ~(path = "/api/replicate" /\ r.httpMethod = "POST")
     THEN {notFound(NotFoundMessage(r.httpMethod, path), org, env)}
     ELSE IF BodyTruthy(r.body) /\ ~isValidJsonSize(r.body, limit)
     THEN {badRequest(TooLargeMessage(limit), Missing, org, env)}
     ELSE IF doc = InvalidJson
     THEN {badRequest("Invalid JSON in request body", Missing, org, env)}
     ELSE IF ~validateReplicateRequest(doc).isValid
     THEN {badRequest(validateReplicateRequest(doc).error, Missing, org, env)}
     ELSE IF l.race.state = "rejected" THEN {FailureResponse(l.race.error, org)}
     ELSE IF l.race.state = "pending" THEN {}
     ELSE IF l.entry = "proxy" /\ HasUrls(l.race.value)
     THEN { ok(IF l.race.value.t = "files" THEN Arr(l.race.value.v)
               ELSE [t |-> "url", v |-> l.race.value.v], org, env) }
          \cup { FailureResponse(error, org) : error \in BackendErrors }
     ELSE {ok(l.race.value, org, env)}

\* A single invocation answers as SoloResponses says.
RunAlone == Returned => response \in SoloResponses(Locals)

\* The local state after a step.
LocalsAfter ==
  [ pc |-> pc', entry |-> entry', event |-> event', request |-> request',
    requestId |-> requestId', timestamp |-> timestamp', config |-> config',
    origin |-> origin', parsedBody |-> parsedBody', callArgs |-> callArgs',
    backend |-> backend', timer |-> timer', race |-> race', urls |-> urls',
    response |-> response', calls |-> calls', stages |-> stages', thrown |-> thrown' ]

C18_NoSharedState ==
  /\ [](\A l \in {Locals, parked} : l.pc = "done" => l.response \in SoloResponses(l))
  /\ [][env' = env /\ (parked' = parked \/ (parked' = Locals /\ LocalsAfter = parked))]_vars

\* Two invocations with different requests, interleaved, have both returned.
C18_Witness ==
  /\ pc = "done" /\ parked.pc = "done"
  /\ calls = 1 /\ parked.calls = 0
  /\ requestId = "req-1" /\ parked.requestId = "req-2"
  /\ response.headers[AllowOrigin] = "https://app2.com"
  /\ parked.response.headers[AllowOrigin] = "https://app1.com"
  /\ \E i, j, k \in 1..Len(logs) :
       /\ i < j /\ j < k
       /\ logs[i].pieces[2] = "req-1"
       /\ logs[j].pieces[2] = "req-2"
       /\ logs[k].pieces[2] = "req-1"

\* ------------------------------------------------------------------------
\* C19
\* ------------------------------------------------------------------------

\* The three normalizers have been called on events of the one content, and
\* each returned a request.
AllNormalized ==
  /\ normalized.done = {"gateway", "edge", "direct"}
  /\ normalized.directEvent # EmptyEvent
  /\ ~normalized.gateway.threw
  /\ ~normalized.edge.threw
  /\ ~normalized.direct.threw

\* The request that holds the content as it is.
RequestOf(c) == UniversalRequest(c.method, c.path, Map(c.headers), c.body, c.query)

\* The content has a body that is not empty and a query that is not empty.
FullContent ==
  /\ Truthy(normalized.content.body)
  /\ normalized.content.query # Null
  /\ normalized.content.query.v # NoHeaders

\* C19, as stated: the gateway event, the edge event and the direct event
\* that carry the same method, path, headers, body and query are
\* normalized to identical requests.
C19_AsStated ==
  AllNormalized =>
    /\ normalized.gateway = normalized.edge
    /\ normalized.edge = normalized.direct

\* C19, amended: the gateway event, the edge event and the direct event
\* that carry the same method, path, headers, a body that is not empty and
\* a query that is not empty are normalized to identical requests, which
\* hold that method, path, headers, body and query.
C19_SameFullContent ==
  (AllNormalized /\ FullContent) =>
    /\ normalized.gateway = RequestOf(normalized.content)
    /\ normalized.edge = RequestOf(normalized.content)
    /\ normalized.direct = RequestOf(normalized.content)

\* The three normalizers agree on a content whose body has a two-byte
\* character and whose query has an encoded value.
C19_Witness ==
  /\ AllNormalized
  /\ normalized.content.body = Str(<< 233 >>)
  /\ normalized.content.query # Null
  /\ "q" \in DOMAIN normalized.content.query.v
  /\ normalized.edgeEvent.Records[1].body.v # << 233 >>
  /\ normalized.edge = normalized.gateway
  /\ normalized.direct = normalized.gateway

\* ------------------------------------------------------------------------
\* C20
\* ------------------------------------------------------------------------

\* The request has its headers as a mapping, and neither its body nor its
\* query is undefined.
NoHoles(r) ==
  /\ ~r.threw
  /\ r.headers.t = "object"
  /\ r.body.t # "undefined"
  /\ r.queryStringParameters.t # "undefined"

\* C20: every normalizer returns a request for every event of its shape,
\* the headers a mapping, the body and the query never undefined; the
\* event {} gives GET, '/', no headers, a null body and a null query.
C20_DefensiveDefaults ==
  /\ "gateway" \in normalized.done => NoHoles(normalized.gateway)
  /\ "edge" \in normalized.done => NoHoles(normalized.edge)
  /\ "direct" \in normalized.done => NoHoles(normalized.direct)
  /\ ("direct" \in normalized.done /\ normalized.directEvent = EmptyEvent) =>
       normalized.direct = UniversalRequest("GET", "/", Map(NoHeaders), Null, Null)

\* ------------------------------------------------------------------------
\* C21
\* ------------------------------------------------------------------------

\* The event of the invocation, in the API Gateway shape.
GatewayShaped == [event EXCEPT !.shape = "apigw1"]

\* The exported handler has answered a direct invocation event, which
\* carries its request as {method, uri, headers, body}.
DirectAnswered == Returned /\ entry = "proxy" /\ event.shape = "unknown"

\* C21: the exported handler answers a direct invocation event with the
\* status and the body it gives the API Gateway event of the same method,
\* path and body: 200 for GET /health, 200 with the result for a valid
\* POST /api/replicate, 400 with the validation error for an invalid one.
C21_SameAcrossShapes ==
  DirectAnswered =>
    \E r \in SoloResponses([Locals EXCEPT !.request = ProxyExtract(GatewayShaped)]) :
      /\ response.statusCode = r.statusCode
      /\ response.body = r.body

\* ------------------------------------------------------------------------
\* C22
\* ------------------------------------------------------------------------

\* The ASCII letters and digits.
AsciiAlnum == Letters \cup { Digits[d] : d \in 1..10 }

\* The characters a..b of s are a part of a model name: at least one, the
\* first a letter or a digit, the others letters, digits, '-' or '_'.
PartOk(s, a, b) ==
  /\ a <= b
  /\ s[a] \in AsciiAlnum
  /\ \A i \in (a + 1)..b : s[i] \in AsciiAlnum \cup {"-", "_"}

\* s is owner/name, with exactly one slash.
OwnerSlashName(s) ==
  LET slashes == { k \in 1..Len(s) : s[k] = "/" }
  IN  /\ Cardinality(slashes) = 1
      /\ \A k \in slashes : PartOk(s, 1, k - 1) /\ PartOk(s, k + 1, Len(s))

ModelChecked == checked.by = "isValidModelName"

\* C22: isValidModelName is true exactly of the strings of 1 to 100
\* characters that are owner/name with one slash, each part a letter or a
\* digit followed by letters, digits, dashes and underscores; it accepts
\* 'owner/model' and 'owner/model-' and rejects 'model', '/model',
\* 'owner/', 'owner/model/' and 'owner/-model'.
C22_ModelNameGrammar ==
  ModelChecked =>
    /\ checked.verdict <=>
         /\ checked.value.t = "string"
         /\ Len(checked.value.v) \in 1..100
         /\ OwnerSlashName(checked.value.v)
    /\ checked.value \in
         { Str(<< "o", "w", "n", "e", "r", "/", "m", "o", "d", "e", "l" >>),
           Str(<< "o", "w", "n", "e", "r", "/", "m", "o", "d", "e", "l", "-" >>) }
         => checked.verdict
    /\ checked.value \in
         { Str(<< "m", "o", "d", "e", "l" >>),
           Str(<< "/", "m", "o", "d", "e", "l" >>),
           Str(<< "o", "w", "n", "e", "r", "/" >>),
           Str(<< "o", "w", "n", "e", "r", "/", "m", "o", "d", "e", "l", "/" >>),
           Str(<< "o", "w", "n", "e", "r", "/", "-", "m", "o", "d", "e", "l" >>) }
         => ~checked.verdict

\* A model name of exactly 100 characters is accepted.
C22_Witness ==
  /\ ModelChecked
  /\ checked.verdict
  /\ Len(checked.value.v) = 100

\* ------------------------------------------------------------------------
\* C23
\* ------------------------------------------------------------------------

\* x is a string of 8 to 200 characters with no whitespace at either end.
CredentialOk(x) ==
  /\ x.t = "string"
  /\ Len(x.v) >= 8
  /\ Len(x.v) <= 200
  /\ x.v[1] \notin Whitespace
  /\ x.v[Len(x.v)] \notin Whitespace

\* C23: isValidApiKey is true exactly of the strings of 8 to 200 characters
\* that equal their trimmed selves; and a request with a valid model whose
\* credential is missing, empty or not such a string fails validation with
\* 'Valid API key is required (8-200 characters)'.
C23_CredentialRule ==
  /\ checked.by = "isValidApiKey" =>
       (checked.verdict <=> CredentialOk(checked.value))
  /\ (checked.by = "validateReplicateRequest" /\ ~CredentialOk(checked.value)) =>
       /\ ~checked.verdict
       /\ checked.error = "Valid API key is required (8-200 characters)"

\* A key of 8 characters is accepted, whitespace inside it and all.
C23_Witness ==
  /\ checked.by = "isValidApiKey"
  /\ checked.verdict
  /\ Len(checked.value.v) = 8
  /\ \E i \in 2..7 : checked.value.v[i] \in Whitespace

\* In the handlers, a request that fails validation for its credential is
\* answered 400 with the credential error.
CredentialRejectedWith400 ==
  (ValidationFailed /\ parsedBody.t = "object" /\ isValidModelName(parsedBody.model)
     /\ ~CredentialOk(parsedBody.apiKey)) =>
    /\ response.statusCode = 400
    /\ ResponseError = "Valid API key is required (8-200 characters)"

\* ------------------------------------------------------------------------
\* C24
\* ------------------------------------------------------------------------

\* The handler returned the status 401.
Answered401 == Returned /\ response.statusCode = 401

\* C24, as stated: no invocation is answered 401.
C24_AsStated == ~Answered401

\* C24, amended: the handlers answer 401 only to hand on a failure of the
\* backend (of the call, or of reading the urls of its files) whose status
\* is 401; an invocation that issued no backend call
\* is never answered 401, and a request whose validation fails, as for a
\* missing or malformed credential, is answered 400.
C24_No401OfItsOwn ==
  /\ Answered401 =>
       /\ calls = 1
       /\ \E error \in BackendErrors :
            /\ error.object
            /\ error.status = 401
            /\ ResponseError = error.message
            /\ \/ race.state = "rejected" /\ race.error = error
               \/ race.state = "fulfilled" /\ urls = "settled"
  /\ ValidationFailed => response.statusCode = 400

\* A request without a credential is answered 400 with the credential
\* error.
C24_Witness ==
  /\ ValidationFailed
  /\ parsedBody.t = "object"
  /\ parsedBody.apiKey = Undefined
  /\ response.statusCode = 400
  /\ ResponseError = ApiKeyError

\* ------------------------------------------------------------------------
\* C25: the backend call is raced against the timer and the first of the
\* two to finish decides the response; what the loser does afterwards (the
\* backend settling after a timeout, the still-armed timer firing after the
\* backend settled) is discarded: a settled race never changes, a returned
\* response never changes and is the only one, and nothing is thrown.
\* ------------------------------------------------------------------------

\* The backend settled first, and the timer fired afterwards.
BackendWon == race.state = "fulfilled" /\ timer.state = "fired"

\* The timer fired first, and the backend settled afterwards.
TimerWon == TimedOut /\ backend = "settled"

C25_LoserDiscarded ==
  /\ [](Returned /\ TimerWon => TimeoutResponse)
  /\ [](Returned /\ BackendWon /\ entry = "universal" =>
          response = ok(race.value, originArg, env))
  /\ [](Returned /\ calls = 1 => response \in SoloResponses(Locals))
  /\ [][race.state # "pending" => race' = race]_vars
  /\ [][Returned => /\ Returned'
                    /\ response' = response
                    /\ thrown' = thrown
                    /\ logs' = logs
                    /\ calls' = calls]_vars

\* The timeout was answered and the backend settled afterwards.
C25_Witness == Returned /\ TimerWon /\ TimeoutResponse

\* ------------------------------------------------------------------------
\* C26: within one invocation the settings are resolved once: the size
\* limit, the backend timeout, the stack-trace flag and the CORS allow-list
\* used when the response is built come from the same snapshot, even if the
\* environment changes while the backend call is pending.
\* ------------------------------------------------------------------------

\* The origin the allow-list of the invocation's snapshot allows.
SnapshotOrigin ==
  LET allowedOrigins == config.corsAllowedOrigins IN
  IF TruthyStr(originArg) /\ Len(allowedOrigins) > 0 /\ ~Includes(allowedOrigins, "*")
  THEN IF Includes(allowedOrigins, originArg) THEN originArg ELSE allowedOrigins[1]
  ELSE "*"

\* The timeout of the snapshot is the one the timer was armed with.
SnapshotTimeout == timer.state = "none" \/ timer.message = TimeoutMessage(config.replicateTimeout)

C26_OneSnapshot ==
  Returned => /\ response.headers[AllowOrigin] = SnapshotOrigin
              /\ SnapshotTimeout

\* The settings other than the allow-list do come from the snapshot.
C26_TimeoutFromSnapshot == Returned => SnapshotTimeout

\* ------------------------------------------------------------------------
\* C27: the only suspension point of an invocation is the backend call
\* raced against the timer: once the backend call has settled or the timer
\* has fired, the step that resumes the invocation returns its response; it
\* waits on no other asynchronous operation.
\* ------------------------------------------------------------------------

\* The handler leaves the await of the race.
LeavesAwait == pc = "await" /\ pc' # "await"

C27_OnlySuspension == [][LeavesAwait => Returned']_vars

\* universalHandler does return from the await of the race.
C27_UniversalReturns == [][LeavesAwait /\ entry = "universal" => Returned']_vars

\* ------------------------------------------------------------------------
\* C28: when an event matches more than one trigger shape, the shapes are
\* tried in the order gateway-style (top-level httpMethod, path and
\* headers), edge-style (Records[0].cf.request), generic fallback, and the
\* first match decides the method, path, headers and body.
\* ------------------------------------------------------------------------

\* The event has httpMethod, path and a headers mapping at its top level.
GatewayStyle(e) == e.httpMethod # Missing /\ e.path # Missing /\ e.headers.t = "object"

\* The event has Records[0].cf.request.
EdgeStyle(e) == e.Records # <<>>

\* The top level of an event, as an API Gateway event.
TopLevel(e) ==
  [httpMethod |-> e.httpMethod, path |-> e.path, headers |-> e.headers, body |-> e.body,
   queryStringParameters |-> e.queryStringParameters]

\* fromDirectLambda was called on an event of both styles.
BothStyles ==
  /\ "direct" \in normalized.done
  /\ GatewayStyle(normalized.directEvent)
  /\ EdgeStyle(normalized.directEvent)

C28_GatewayFirst ==
  BothStyles =>
    LET first == fromApiGateway(TopLevel(normalized.directEvent)) IN
    /\ ~normalized.direct.threw
    /\ normalized.direct.httpMethod = first.httpMethod
    /\ normalized.direct.path = first.path
    /\ normalized.direct.headers = first.headers
    /\ normalized.direct.body = first.body

\* In the code the Lambda@Edge records decide.
C28_EdgeDecides ==
  BothStyles => normalized.direct = fromLambdaEdge(normalized.directEvent.Records[1])

\* ------------------------------------------------------------------------
\* C29: a POST /api/replicate whose body is absent, null or the empty
\* string is not size-checked and is parsed as the empty object {}: it is
\* answered with 400 and the model error, not with the size error, the
\* invalid-JSON error or the body-object error, and causes no backend call.
\* ------------------------------------------------------------------------

\* The request is a POST /api/replicate without a body.
EmptyBodied ==
  /\ request.httpMethod = "POST"
  /\ request.path = "/api/replicate"
  /\ (request.body.null \/ request.body.chars = <<>>)

C29_EmptyBodyIsEmptyObject ==
  EmptyBodied =>
    /\ pc \in {"route", "size", "parse", "validate", "done"}
    /\ calls = 0
    /\ Len(stages) >= 2 => parsedBody = EmptyObject
    /\ Returned => /\ stages = <<"size", "parse", "validate">>
                   /\ response.statusCode = 400
                   /\ ResponseError = ModelError

\* The empty string, under a limit that is NaN, is answered with the model
\* error.
C29_Witness ==
  /\ Returned
  /\ EmptyBodied
  /\ ~request.body.null
  /\ config.maxRequestSize.nan
  /\ ResponseError = ModelError

\* ------------------------------------------------------------------------
\* C30: when MAX_REQUEST_SIZE is set to a non-numeric value the resolved
\* limit is NaN, and then every POST /api/replicate with a non-empty body is
\* rejected with the 400 size error whatever its length; when the variable
\* is unset the same request is judged against 1048576 bytes.
\* ------------------------------------------------------------------------

\* MAX_REQUEST_SIZE=invalid
NonNumeric == <<"i", "n", "v", "a", "l", "i", "d">>

\* The request is a POST /api/replicate with a body that is not empty.
NonEmptyPost ==
  /\ request.httpMethod = "POST"
  /\ request.path = "/api/replicate"
  /\ ~request.body.null
  /\ request.body.chars # <<>>

C30_NaNLimitRejectsAll ==
  NonEmptyPost =>
    /\ env.MAX_REQUEST_SIZE = NonNumeric =>
         /\ config.maxRequestSize.nan
         /\ SizeChecked => SizeRejected
    /\ env.MAX_REQUEST_SIZE = Unset =>
         /\ config.maxRequestSize = Number(1048576)
         /\ SizeChecked => (SizeRejected <=> Utf8Bytes(request.body) > 1048576)
         /\ SizeChecked => (SizeRejected \/ SizePassed)

\* A body of one byte is rejected under the NaN limit.
C30_Witness ==
  /\ SizeRejected
  /\ NonEmptyPost
  /\ env.MAX_REQUEST_SIZE = NonNumeric
  /\ Utf8Bytes(request.body) = 1

\* The same body passes the size check when the variable is unset.
C30_UnsetWitness ==
  /\ SizePassed
  /\ NonEmptyPost
  /\ env.MAX_REQUEST_SIZE = Unset
  /\ Utf8Bytes(request.body) = 1

====
